---- MODULE Spec2Model ----
(***************************************************************************)
(* Playlist-membership cache of the Cider playlist manager plugin.         *)
(*                                                                         *)
(*   PlaylistCache (src/src/main.ts 1026-1249): three localStorage records *)
(*   (cache table, settings, Modified-Set) and the static methods on them. *)
(*   Playlist manager modal (src/unnamed/part_000): loadPlaylists (the     *)
(*   reconciliation pass), applyChanges (the mutation pipeline),           *)
(*   togglePlaylist, closeModal, refreshPlaylists.                         *)
(*   Settings modal (src/src/plugin.config.ts): saveSettings, clearCache,  *)
(*   loadStats.                                                            *)
(*                                                                         *)
(* Times are JavaScript epoch milliseconds.  Identifiers of songs and      *)
(* tracks are sequences of one-character strings, so that the prefix       *)
(* stripping and substring tests of the code are computed, not assumed.    *)
(* A missing localStorage key and a stored empty array are read alike by   *)
(* every method (main.ts 1072, 1173, 1194), so both are the empty          *)
(* sequence here.  getStats().cacheSize (the length of the JSON text) is   *)
(* not modelled.                                                           *)
(***************************************************************************)
EXTENDS Integers, Sequences, FiniteSets, TLC

VARIABLES
    lsCache,      \* localStorage["playlist-manager-cache"]: sequence of CachedPlaylist
    lsSettings,   \* localStorage["playlist-manager-settings"]: <<>> or <<record>>
    lsModified,   \* localStorage["playlist-manager-modified"]: sequence of playlist ids
    now,          \* the wall clock read by new Date()
    ret,          \* the value returned by the last PlaylistCache call of the settings layer
    remote,       \* remote library: playlist id -> sequence of tracks
    mstate,       \* modal instance: "unopened", "open", "closed"
    aborted,      \* modal instance: aborted ref
    loading,      \* modal instance: loading ref
    processing,   \* modal instance: processing ref
    cacheUsed,    \* modal instance: cacheUsed ref
    playlists,    \* modal instance: playlists ref (sequence of PlaylistCheckState)
    alerts,       \* modal instance: number of DialogAPI.createAlert calls
    pc,           \* loadPlaylists: position of the running pass
    pass,         \* loadPlaylists: locals of the running pass
    apc,          \* applyChanges: position of the running pipeline
    app,          \* applyChanges: locals of the running pipeline
    passCount,    \* number of loadPlaylists calls started so far
    budget,       \* user actions and clock steps left in the bounded run
    hist,         \* history of the run, read by the properties only
    tokens        \* MusicKit instance: developerToken and musicUserToken are both set

vars == <<lsCache, lsSettings, lsModified, now, ret, remote, mstate, aborted,
          loading, processing, cacheUsed, playlists, alerts, pc, pass, apc, app,
          passCount, budget, hist, tokens>>

lsVars == <<lsCache, lsSettings, lsModified>>

modalVars == <<remote, mstate, aborted, loading, processing, cacheUsed,
               playlists, alerts, pc, pass, apc, app, passCount, budget, hist,
               tokens>>

(***************************************************************************)
(* Bounds of the model.                                                    *)
(***************************************************************************)
MaxApiTicks == 2      \* clock steps in the PlaylistCache-level specification
MaxPasses == 2        \* loadPlaylists calls in the modal-level specification
MaxApplies == 1       \* applyChanges calls in the modal-level specification
MaxToggles == 2       \* togglePlaylist calls in the modal-level specification
MaxEnvOps == 1        \* clock steps, settings-modal calls and failing requests there
MaxOps == 5           \* all of the four kinds above together
OverlapPasses == 3    \* loadPlaylists calls in the overlapping-instances specification
OverlapApplies == 2   \* applyChanges calls in the overlapping-instances specification
OverlapToggles == 2   \* togglePlaylist calls in the overlapping-instances specification

ApiTickMs == 1000     \* one clock step of the PlaylistCache-level specification
TickMs == 360000      \* one long clock step of the modal-level specification
ShortTickMs == 120000 \* one short clock step of the modal-level specification
ApiNow0 == 600000     \* initial clock of the PlaylistCache-level specification

Playlists == {"p1", "p2"}
Modals == {"m1", "m2"}
ExpirationChoices == {1, 5}

(***************************************************************************)
(* Identifiers.  The managed song is opened by its catalog id; its library *)
(* copy has a library id with the "i." prefix.                             *)
(***************************************************************************)
SongId == <<"1", "2">>
SongLibraryId == <<"i", ".", "a">>
OtherCatalogId == <<"3", "4">>
OtherLibraryId == <<"i", ".", "b">>

\* a track record of the remote API: id and attributes.playParams.catalogId
SongTrack == [id |-> SongLibraryId, catalogId |-> SongId]
OtherTrack == [id |-> OtherLibraryId, catalogId |-> OtherCatalogId]

(***************************************************************************)
(* Helpers on sequences.                                                   *)
(***************************************************************************)
Range(s) == {s[i] : i \in DOMAIN s}

Includes(s, x) == \E i \in DOMAIN s : s[i] = x

\* Array.prototype.findIndex, 1-based; 0 when nothing matches
FindIndex(s, Test(_)) ==
    IF \E i \in DOMAIN s : Test(s[i])
    THEN CHOOSE i \in DOMAIN s : Test(s[i]) /\ \A j \in 1..(i - 1) : ~Test(s[j])
    ELSE 0

(***************************************************************************)
(* PlaylistCache, src/src/main.ts                                          *)
(***************************************************************************)
defaultSettings == [enabled |-> TRUE, expirationMinutes |-> 5]

\* { ...a, ...b }
Spread(a, b) ==
    [k \in (DOMAIN a) \cup (DOMAIN b) |-> IF k \in DOMAIN b THEN b[k] ELSE a[k]]

\* a stored text JSON.parse throws on
Unparsable == [unparsable |-> TRUE]

Parses(text) == "unparsable" \notin DOMAIN text

getSettingsDefaultsOverStored(stored) ==
    IF stored # <<>> THEN Spread(stored[1], defaultSettings) ELSE defaultSettings

\* the stored record spread over the defaults; the defaults when nothing is
\* stored or JSON.parse throws
getSettings(stored) ==
    IF stored # <<>> /\ Parses(stored[1])
    THEN Spread(defaultSettings, stored[1])
    ELSE defaultSettings

saveSettingsOverDefaults(stored, settings) == <<Spread(defaultSettings, settings)>>

saveSettings(stored, settings) ==
    LET current == getSettings(stored)
        updated == Spread(current, settings)
    IN  <<updated>>

\* a stored cache text JSON.parse throws on
UnparsableCache ==
    <<[id |-> "#unparsable", name |-> "", tracks |-> <<>>, lastModified |-> 0,
       cachedAt |-> 0]>>

getCacheIgnoringEnabled(cacheStored, settingsStored) == cacheStored

\* [] when caching is disabled, nothing is stored or JSON.parse throws
getCache(cacheStored, settingsStored) ==
    IF ~getSettings(settingsStored).enabled THEN <<>>
    ELSE IF cacheStored = UnparsableCache THEN <<>>
    ELSE cacheStored

getCachedPlaylistWrongBoundary(cacheStored, settingsStored, playlistId, t) ==
    LET cache == getCache(cacheStored, settingsStored)
        IsId(p) == p.id = playlistId
        idx == FindIndex(cache, IsId)
        expirationMs == getSettings(settingsStored).expirationMinutes * 60 * 1000
    IN  IF idx = 0 THEN <<>>
        ELSE IF t - cache[idx].cachedAt >= expirationMs THEN <<>>
        ELSE <<cache[idx]>>

\* CachedPlaylist | null as a sequence of length at most 1
getCachedPlaylist(cacheStored, settingsStored, playlistId, t) ==
    LET cache == getCache(cacheStored, settingsStored)
        IsId(p) == p.id = playlistId
        idx == FindIndex(cache, IsId)
        expirationMs == getSettings(settingsStored).expirationMinutes * 60 * 1000
        age == t - cache[idx].cachedAt
    IN  IF idx = 0 THEN <<>>
        ELSE IF age > expirationMs THEN <<>>
        ELSE <<cache[idx]>>

\* boolean | null as a sequence of length at most 1
isSongInPlaylist(cacheStored, settingsStored, playlistId, songId, t) ==
    LET playlist == getCachedPlaylist(cacheStored, settingsStored, playlistId, t)
    IN  IF playlist = <<>> THEN <<>>
        ELSE <<Includes(playlist[1].tracks, songId)>>

RECURSIVE UpsertAllMergingTracks(_, _, _)
UpsertAllMergingTracks(cache, list, t) ==
    IF list = <<>> THEN cache
    ELSE LET playlist == Head(list)
             IsId(p) == p.id = playlist.id
             index == FindIndex(cache, IsId)
             cachedPlaylist == [playlist EXCEPT !.cachedAt = t]
         IN  UpsertAllMergingTracks(
                 IF index > 0
                 THEN [cache EXCEPT ![index] =
                          [cachedPlaylist EXCEPT !.tracks = cache[index].tracks \o @]]
                 ELSE Append(cache, cachedPlaylist),
                 Tail(list), t)

RECURSIVE UpsertAllAlwaysPush(_, _, _)
UpsertAllAlwaysPush(cache, list, t) ==
    IF list = <<>> THEN cache
    ELSE UpsertAllAlwaysPush(Append(cache, [Head(list) EXCEPT !.cachedAt = t]),
                             Tail(list), t)

RECURSIVE UpsertAll(_, _, _)
UpsertAll(cache, list, t) ==
    IF list = <<>> THEN cache
    ELSE LET playlist == Head(list)
             IsId(p) == p.id = playlist.id
             index == FindIndex(cache, IsId)
             cachedPlaylist == [playlist EXCEPT !.cachedAt = t]
         IN  UpsertAll(IF index > 0
                         THEN [cache EXCEPT ![index] = cachedPlaylist]
                         ELSE Append(cache, cachedPlaylist),
                       Tail(list), t)

updatePlaylistsNoEnabledCheck(cacheStored, settingsStored, list, t) ==
    UpsertAll(getCache(cacheStored, settingsStored), list, t)

\* the cache record left in storage by updatePlaylists
updatePlaylists(cacheStored, settingsStored, list, t) ==
    IF ~getSettings(settingsStored).enabled THEN cacheStored
    ELSE UpsertAll(getCache(cacheStored, settingsStored), list, t)

clearCacheKeepingModified == [cache |-> <<>>, modified |-> lsModified]

\* clearCache removes the cache key and the modified key
clearCache == [cache |-> <<>>, modified |-> <<>>]

RECURSIVE PushMissing(_, _)
PushMissing(modified, ids) ==
    IF ids = <<>> THEN modified
    ELSE PushMissing(IF Includes(modified, Head(ids)) THEN modified
                     ELSE Append(modified, Head(ids)),
                     Tail(ids))

\* a stored Modified-Set text JSON.parse throws on, and the stored text "null"
UnparsableIds == <<"#unparsable">>
NullIds == <<"#null">>

\* the modified record left in storage by markPlaylistsModified; when
\* JSON.parse throws, or modified.includes throws on null, the catch block
\* logs and nothing is written
markPlaylistsModified(modifiedStored, playlistIds) ==
    IF modifiedStored = UnparsableIds THEN modifiedStored
    ELSE IF modifiedStored = NullIds THEN modifiedStored
    ELSE PushMissing(modifiedStored, playlistIds)

\* [] when nothing is stored or JSON.parse throws, else the parsed value
\* (null for the text "null")
getModifiedPlaylists(modifiedStored) ==
    IF modifiedStored = UnparsableIds THEN <<>> ELSE modifiedStored

\* clearModifiedPlaylists removes the modified key
clearModifiedPlaylists(modifiedStored) == <<>>

RECURSIVE MinCachedAt(_)
MinCachedAt(cache) ==
    IF Len(cache) = 1 THEN cache[1].cachedAt
    ELSE LET m == MinCachedAt(Tail(cache))
         IN  IF cache[1].cachedAt <= m THEN cache[1].cachedAt ELSE m

\* the outcome of a call that throws a TypeError
Threw == [threw |-> TRUE]

getStatsWrongBoundary(cacheStored, settingsStored, modifiedStored, t) ==
    LET cache == getCache(cacheStored, settingsStored)
        settings == getSettings(settingsStored)
        modified == getModifiedPlaylists(modifiedStored)
        expirationMs == settings.expirationMinutes * 60 * 1000
        IsExpired(p) == t - p.cachedAt >= expirationMs
        expired == SelectSeq(cache, IsExpired)
    IN  IF modified = NullIds THEN Threw
        ELSE [totalPlaylists |-> Len(cache),
              expiredPlaylists |-> Len(expired),
              modifiedPlaylists |-> Len(modified),
              oldestCache |-> IF Len(cache) > 0 THEN <<MinCachedAt(cache)>> ELSE <<>>]

\* getStats has no try block: modified.length throws on null
getStats(cacheStored, settingsStored, modifiedStored, t) ==
    LET cache == getCache(cacheStored, settingsStored)
        settings == getSettings(settingsStored)
        modified == getModifiedPlaylists(modifiedStored)
        expirationMs == settings.expirationMinutes * 60 * 1000
        IsExpired(p) == t - p.cachedAt > expirationMs
        expired == SelectSeq(cache, IsExpired)
    IN  IF modified = NullIds THEN Threw
        ELSE [totalPlaylists |-> Len(cache),
              expiredPlaylists |-> Len(expired),
              modifiedPlaylists |-> Len(modified),
              oldestCache |-> IF Len(cache) > 0 THEN <<MinCachedAt(cache)>> ELSE <<>>]

(***************************************************************************)
(* What the read methods leave in storage.  None of getSettings, getCache, *)
(* getCachedPlaylist, isSongInPlaylist, getModifiedPlaylists and getStats  *)
(* calls localStorage.setItem or removeItem.                               *)
(***************************************************************************)
StoreOf(c, s, m) == [cache |-> c, settings |-> s, modified |-> m]

storeAfterGetCachedPlaylistEvicting(c, s, m, playlistId, t) ==
    LET Keep(p) == ~(p.id = playlistId
                     /\ t - p.cachedAt > getSettings(s).expirationMinutes * 60 * 1000)
    IN  StoreOf(SelectSeq(c, Keep), s, m)

storeAfterGetCachedPlaylist(c, s, m, playlistId, t) == StoreOf(c, s, m)

storeAfterGetSettings(c, s, m) == StoreOf(c, s, m)

storeAfterGetModifiedPlaylists(c, s, m) == StoreOf(c, s, m)

storeAfterGetStats(c, s, m, t) == StoreOf(c, s, m)

(***************************************************************************)
(* String operations of the identifier matching.                           *)
(***************************************************************************)
\* s.replace(/^i\./, '')
StripLibraryPrefix(s) ==
    IF Len(s) >= 2 /\ s[1] = "i" /\ s[2] = "." THEN SubSeq(s, 3, Len(s)) ELSE s

\* s.includes(sub)
StrIncludes(s, sub) ==
    \E k \in 0..(Len(s) - Len(sub)) : SubSeq(s, k + 1, k + Len(sub)) = sub

(***************************************************************************)
(* Playlist manager modal, src/unnamed/part_000.                           *)
(*                                                                         *)
(* The listing returns the editable library playlists already in the order *)
(* of their lastModifiedDate (newest first); every playlist holds fewer    *)
(* than 100 tracks, so one page request returns its whole track list, and  *)
(* a listing has at most batchSize playlists, so a pass has one batch.     *)
(***************************************************************************)
batchSize == 10

ListingOrder == <<"p1", "p2">>

\* the library of the batching specification: more playlists than one batch
BatchIds ==
    Playlists \cup {"p3", "p4", "p5", "p6", "p7", "p8", "p9", "p10", "p11", "p12"}

PlaylistLastModified == [p \in BatchIds |-> IF p = "p1" THEN 2 ELSE 1]

Listings == {<<"p1", "p2">>, <<"p1">>}

IdlePass ==
    [settings |-> defaultSettings, searchIds |-> <<>>, modifiedPlaylistIds |-> <<>>,
     playlistStates |-> <<>>, playlistsToFetch |-> <<>>, playlistsToCache |-> <<>>,
     i |-> 0, pending |-> {}, results |-> <<>>, cacheHits |-> 0,
     hits |-> {}, startedAt |-> 0, no |-> 0, failed |-> {}]

IdleApp ==
    [changes |-> <<>>, i |-> 0, modifiedIds |-> <<>>, live |-> TRUE, objs |-> <<>>,
     data |-> <<>>, applied |-> <<>>, touched |-> {}]

Budget0 ==
    [passes |-> MaxPasses, applies |-> MaxApplies, toggles |-> MaxToggles,
     env |-> MaxEnvOps, ops |-> MaxOps]

OverlapBudget0 ==
    [passes |-> OverlapPasses, applies |-> OverlapApplies, toggles |-> OverlapToggles,
     env |-> 0, ops |-> OverlapPasses + OverlapApplies + OverlapToggles]

\* one more operation of the kind fits the bounded run / is taken from it
CanSpend(kind) == budget[kind] > 0 /\ budget.ops > 0
Spend(kind) == [budget EXCEPT ![kind] = @ - 1, !.ops = @ - 1]

\* dirty: playlists changed by applyChanges since their cache entry was last
\* written or deleted; servedStale: those of them a pass answered from the cache
Hist0 == [dirty |-> {}, servedStale |-> {}]

PlaylistState(id, member) ==
    [id |-> id, name |-> id, isInPlaylist |-> member, originalState |-> member,
     lastModified |-> PlaylistLastModified[id]]

\* the comparator of playlistStates.sort: members first, then newest first
SortsBefore(a, b) ==
    \/ a.isInPlaylist /\ ~b.isInPlaylist
    \/ a.isInPlaylist = b.isInPlaylist /\ a.lastModified > b.lastModified

RECURSIVE InsertSorted(_, _)
InsertSorted(sorted, x) ==
    IF sorted = <<>> THEN <<x>>
    ELSE IF SortsBefore(x, Head(sorted)) THEN <<x>> \o sorted
    ELSE <<Head(sorted)>> \o InsertSorted(Tail(sorted), x)

\* Array.prototype.sort (stable) with the comparator above
RECURSIVE SortStates(_)
SortStates(states) ==
    IF states = <<>> THEN <<>>
    ELSE InsertSorted(SortStates(SubSeq(states, 1, Len(states) - 1)), states[Len(states)])

hasChanges(m) == \E k \in DOMAIN playlists[m] :
                    playlists[m][k].isInPlaylist # playlists[m][k].originalState

ChangedIds(m) ==
    {playlists[m][k].id : k \in {n \in DOMAIN playlists[m] :
        playlists[m][n].isInPlaylist # playlists[m][n].originalState}}

changesCount(m) == Cardinality(ChangedIds(m))

\* the for-loop over searchIds with its break
RECURSIVE FirstCachedResult(_, _, _, _, _)
FirstCachedResult(playlistId, searchIds, c, s, t) ==
    IF searchIds = <<>> THEN <<>>
    ELSE LET r == isSongInPlaylist(c, s, playlistId, Head(searchIds), t)
         IN  IF r # <<>> THEN r
             ELSE FirstCachedResult(playlistId, Tail(searchIds), c, s, t)

cachedResultIgnoringModified(playlistId, modifiedPlaylistIds, searchIds, c, s, t) ==
    FirstCachedResult(playlistId, searchIds, c, s, t)

\* cachedResult of one playlist of the listing: <<>> is null
cachedResult(playlistId, modifiedPlaylistIds, searchIds, c, s, t) ==
    LET needsRefresh == Includes(modifiedPlaylistIds, playlistId)
    IN  IF ~needsRefresh THEN FirstCachedResult(playlistId, searchIds, c, s, t)
        ELSE <<>>

RECURSIVE ClassifyAlwaysFetching(_, _, _, _, _, _, _)
ClassifyAlwaysFetching(listing, P, modifiedPlaylistIds, settings, c, s, t) ==
    IF listing = <<>> THEN P
    ELSE ClassifyAlwaysFetching(Tail(listing),
                                [P EXCEPT !.playlistsToFetch = Append(@, Head(listing))],
                                modifiedPlaylistIds, settings, c, s, t)

RECURSIVE ClassifyOnBothPaths(_, _, _, _, _, _, _)
ClassifyOnBothPaths(listing, P, modifiedPlaylistIds, settings, c, s, t) ==
    IF listing = <<>> THEN P
    ELSE LET playlistId == Head(listing)
             r == cachedResult(playlistId, modifiedPlaylistIds, P.searchIds, c, s, t)
             next == IF r # <<>> /\ settings.enabled
                     THEN [P EXCEPT !.cacheHits = @ + 1,
                                    !.hits = @ \cup {playlistId},
                                    !.playlistStates =
                                        Append(@, PlaylistState(playlistId, r[1])),
                                    !.playlistsToFetch = Append(@, playlistId)]
                     ELSE [P EXCEPT !.playlistsToFetch = Append(@, playlistId)]
         IN  ClassifyOnBothPaths(Tail(listing), next, modifiedPlaylistIds, settings,
                                 c, s, t)

\* the classification loop of loadPlaylists over sortedPlaylists
RECURSIVE Classify(_, _, _, _, _, _, _)
Classify(listing, P, modifiedPlaylistIds, settings, c, s, t) ==
    IF listing = <<>> THEN P
    ELSE LET playlistId == Head(listing)
             r == cachedResult(playlistId, modifiedPlaylistIds, P.searchIds, c, s, t)
             next == IF r # <<>> /\ settings.enabled
                     THEN [P EXCEPT !.cacheHits = @ + 1,
                                    !.hits = @ \cup {playlistId},
                                    !.playlistStates =
                                        Append(@, PlaylistState(playlistId, r[1]))]
                     ELSE [P EXCEPT !.playlistsToFetch = Append(@, playlistId)]
         IN  Classify(Tail(listing), next, modifiedPlaylistIds, settings, c, s, t)

\* allIds of checkSongInPlaylistWithCache: both ids of every track, empty ones dropped
RECURSIVE AllIds(_)
AllIds(tracks) ==
    IF tracks = <<>> THEN <<>>
    ELSE (IF Head(tracks).id # <<>> THEN <<Head(tracks).id>> ELSE <<>>)
         \o (IF Head(tracks).catalogId # <<>> THEN <<Head(tracks).catalogId>> ELSE <<>>)
         \o AllIds(Tail(tracks))

IdsMatch(trackId, searchId) ==
    LET cleanSearchId == StripLibraryPrefix(searchId)
        cleanTrackId == StripLibraryPrefix(trackId)
    IN  \/ trackId = searchId
        \/ cleanTrackId = cleanSearchId
        \/ StrIncludes(trackId, searchId)
        \/ StrIncludes(searchId, trackId)
        \/ StrIncludes(cleanTrackId, cleanSearchId)
        \/ StrIncludes(cleanSearchId, cleanTrackId)

\* result of checkSongInPlaylistWithCache once the track list was collected
\* (allTracks is empty when the page request failed)
checkSongInPlaylistWithCache(playlistId, allTracks, searchIds, t) ==
    LET allIds == AllIds(allTracks)
        found == \E a \in DOMAIN searchIds : \E b \in DOMAIN allIds :
                    IdsMatch(allIds[b], searchIds[a])
    IN  [found |-> found,
         cached |-> [id |-> playlistId, name |-> playlistId, tracks |-> allIds,
                     lastModified |-> t, cachedAt |-> t]]

\* isMatch of removeSongFromPlaylist
RemoveIsMatch(track, songIdStr) ==
    \/ track.id = songIdStr
    \/ track.catalogId = songIdStr
    \/ StrIncludes(track.id, songIdStr)
    \/ StrIncludes(track.catalogId, songIdStr)

HasSong(tracks) == \E k \in DOMAIN tracks : tracks[k].catalogId = SongId

(***************************************************************************)
(* PlaylistCache-level specification: the methods called one at a time,    *)
(* with any arguments, on any stored cache table and Modified-Set the      *)
(* plugin can have written and on any settings text: none, one that does   *)
(* not parse, a record with one field only, or a full record.              *)
(***************************************************************************)
ApiAges == {0, 59000, 299000}

ApiTrackLists == {<<>>, <<SongLibraryId, SongId>>}

ApiEntry(p, age, tr) ==
    [id |-> p, name |-> p, tracks |-> tr,
     lastModified |-> ApiNow0 - age, cachedAt |-> ApiNow0 - age]

ApiEntries(p) == {<<>>} \cup {<<ApiEntry(p, a, tr)>> : a \in ApiAges, tr \in ApiTrackLists}

ApiCaches == {e1 \o e2 : e1 \in ApiEntries("p1"), e2 \in ApiEntries("p2")}

ApiSettings ==
    {<<>>, <<Unparsable>>, <<[enabled |-> FALSE]>>, <<[expirationMinutes |-> 1]>>}
    \cup {<<[enabled |-> b, expirationMinutes |-> e]>> :
            b \in BOOLEAN, e \in ExpirationChoices}

ApiIdLists == {<<>>, <<"p1">>, <<"p2">>, <<"p1", "p2">>, <<"p2", "p1">>}

\* a snapshot as checkSongInPlaylistWithCache builds it at time t
Snapshot(p, tr, t) ==
    [id |-> p, name |-> p, tracks |-> tr, lastModified |-> t, cachedAt |-> t]

ApiUpdateLists(t) ==
    {<<Snapshot(p, tr, t)>> : p \in Playlists, tr \in ApiTrackLists}
    \cup {<<Snapshot("p1", tr, t), Snapshot("p2", <<>>, t)>> : tr \in ApiTrackLists}
    \cup {<<Snapshot("p1", <<>>, t), Snapshot("p1", <<SongLibraryId, SongId>>, t)>>}

ApiPartials ==
    {[enabled |-> b] : b \in BOOLEAN}
    \cup {[expirationMinutes |-> e] : e \in ExpirationChoices}
    \cup {[enabled |-> b, expirationMinutes |-> e] : b \in BOOLEAN, e \in ExpirationChoices}

InstancesIdle ==
    /\ mstate = [m \in Modals |-> "unopened"]
    /\ aborted = [m \in Modals |-> FALSE]
    /\ loading = [m \in Modals |-> TRUE]
    /\ processing = [m \in Modals |-> FALSE]
    /\ cacheUsed = [m \in Modals |-> FALSE]
    /\ playlists = [m \in Modals |-> <<>>]
    /\ alerts = [m \in Modals |-> 0]
    /\ pc = [m \in Modals |-> "idle"]
    /\ pass = [m \in Modals |-> IdlePass]
    /\ apc = [m \in Modals |-> "idle"]
    /\ app = [m \in Modals |-> IdleApp]
    /\ passCount = 0
    /\ hist = Hist0

\* no modal instance yet, and MusicKit holds both tokens
ModalIdle ==
    /\ InstancesIdle
    /\ tokens = TRUE

ApiInit ==
    /\ lsCache \in ApiCaches
    /\ lsSettings \in ApiSettings
    /\ lsModified \in ApiIdLists
    /\ now = ApiNow0
    /\ ret = [op |-> "none"]
    /\ remote = [p \in Playlists |-> <<>>]
    /\ budget = Budget0
    /\ ModalIdle

SetStore(st) ==
    /\ lsCache' = st.cache
    /\ lsSettings' = st.settings
    /\ lsModified' = st.modified

ApiGetCachedPlaylist(id) ==
    /\ ret' = [op |-> "getCachedPlaylist", id |-> id,
               val |-> getCachedPlaylist(lsCache, lsSettings, id, now)]
    /\ SetStore(storeAfterGetCachedPlaylist(lsCache, lsSettings, lsModified, id, now))
    /\ UNCHANGED <<now, modalVars>>

ApiIsSongInPlaylist(id, songId) ==
    /\ ret' = [op |-> "isSongInPlaylist", id |-> id, songId |-> songId,
               val |-> isSongInPlaylist(lsCache, lsSettings, id, songId, now)]
    /\ SetStore(storeAfterGetCachedPlaylist(lsCache, lsSettings, lsModified, id, now))
    /\ UNCHANGED <<now, modalVars>>

ApiGetModifiedPlaylists ==
    /\ ret' = [op |-> "getModifiedPlaylists", val |-> getModifiedPlaylists(lsModified)]
    /\ SetStore(storeAfterGetModifiedPlaylists(lsCache, lsSettings, lsModified))
    /\ UNCHANGED <<now, modalVars>>

ApiGetSettings ==
    /\ ret' = [op |-> "getSettings", val |-> getSettings(lsSettings)]
    /\ SetStore(storeAfterGetSettings(lsCache, lsSettings, lsModified))
    /\ UNCHANGED <<now, modalVars>>

ApiGetStats ==
    /\ ret' = [op |-> "getStats", val |-> getStats(lsCache, lsSettings, lsModified, now)]
    /\ SetStore(storeAfterGetStats(lsCache, lsSettings, lsModified, now))
    /\ UNCHANGED <<now, modalVars>>

ApiUpdatePlaylists(list) ==
    /\ lsCache' = updatePlaylists(lsCache, lsSettings, list, now)
    /\ ret' = [op |-> "updatePlaylists", list |-> list]
    /\ UNCHANGED <<lsSettings, lsModified, now, modalVars>>

ApiSaveSettings(partial) ==
    /\ lsSettings' = saveSettings(lsSettings, partial)
    /\ ret' = [op |-> "saveSettings", partial |-> partial,
               current |-> getSettings(lsSettings)]
    /\ UNCHANGED <<lsCache, lsModified, now, modalVars>>

ApiClearCache ==
    /\ lsCache' = clearCache.cache
    /\ lsModified' = clearCache.modified
    /\ ret' = [op |-> "clearCache"]
    /\ UNCHANGED <<lsSettings, now, modalVars>>

ApiMarkPlaylistsModified(ids) ==
    /\ lsModified' = markPlaylistsModified(lsModified, ids)
    /\ ret' = [op |-> "markPlaylistsModified", ids |-> ids]
    /\ UNCHANGED <<lsCache, lsSettings, now, modalVars>>

ApiClearModifiedPlaylists ==
    /\ lsModified' = clearModifiedPlaylists(lsModified)
    /\ ret' = [op |-> "clearModifiedPlaylists"]
    /\ UNCHANGED <<lsCache, lsSettings, now, modalVars>>

ApiTick ==
    /\ now < ApiNow0 + MaxApiTicks * ApiTickMs
    /\ now' = now + ApiTickMs
    /\ ret' = [op |-> "tick"]
    /\ UNCHANGED <<lsVars, modalVars>>

ApiNext ==
    \/ \E id \in Playlists : ApiGetCachedPlaylist(id)
    \/ \E id \in Playlists, s \in {SongId, SongLibraryId} : ApiIsSongInPlaylist(id, s)
    \/ ApiGetModifiedPlaylists
    \/ ApiGetSettings
    \/ ApiGetStats
    \/ \E list \in ApiUpdateLists(ApiNow0) : ApiUpdatePlaylists(list)
    \/ \E partial \in ApiPartials : ApiSaveSettings(partial)
    \/ ApiClearCache
    \/ \E ids \in ApiIdLists : ApiMarkPlaylistsModified(ids)
    \/ ApiClearModifiedPlaylists
    \/ ApiTick

SpecCache == ApiInit /\ [][ApiNext]_vars

(***************************************************************************)
(* Modal-level specification: modal instances opened, used and closed by   *)
(* the user, their passes and pipelines interleaved at the awaits, the     *)
(* settings modal and the clock.  Two instances can be alive at a time; a  *)
(* closed instance with nothing in flight gives way to a new one.          *)
(***************************************************************************)
InitialRemote ==
    [p \in Playlists |-> IF p = "p1" THEN <<OtherTrack, SongTrack>> ELSE <<OtherTrack>>]

Init ==
    /\ lsCache = <<>>
    /\ lsSettings = <<>>
    /\ lsModified = <<>>
    /\ now = 0
    /\ ret = [op |-> "none"]
    /\ ModalIdle
    /\ remote = InitialRemote
    /\ budget = Budget0

Min(a, b) == IF a <= b THEN a ELSE b

IdsOf(states) == [k \in DOMAIN states |-> states[k].id]

IndexOfId(states, id) == CHOOSE k \in DOMAIN states : states[k].id = id

\* findLibraryId(props.songId): the song has a library copy once a library
\* playlist holds it
findLibraryId ==
    IF \E p \in Playlists : HasSong(remote[p]) THEN <<SongLibraryId>> ELSE <<>>

\* loadPlaylists up to its first await: loading = true, settings read
StartedPass ==
    [IdlePass EXCEPT !.settings = getSettings(lsSettings),
                     !.startedAt = now,
                     !.no = passCount + 1]

CanOpen(m) ==
    \/ mstate[m] = "unopened"
    \/ mstate[m] = "closed" /\ pc[m] = "idle" /\ apc[m] = "idle"

\* openPlaylistManagerModal creates an instance; onMounted starts the first pass
OpenModal(m) ==
    /\ CanSpend("passes")
    /\ CanOpen(m)
    /\ m = "m2" => ~CanOpen("m1")
    /\ \A other \in Modals : mstate[other] # "open"
    /\ mstate' = [mstate EXCEPT ![m] = "open"]
    /\ aborted' = [aborted EXCEPT ![m] = FALSE]
    /\ loading' = [loading EXCEPT ![m] = TRUE]
    /\ processing' = [processing EXCEPT ![m] = FALSE]
    /\ cacheUsed' = [cacheUsed EXCEPT ![m] = FALSE]
    /\ playlists' = [playlists EXCEPT ![m] = <<>>]
    /\ alerts' = [alerts EXCEPT ![m] = 0]
    /\ pc' = [pc EXCEPT ![m] = "listing"]
    /\ pass' = [pass EXCEPT ![m] = StartedPass]
    /\ app' = [app EXCEPT ![m] = IdleApp]
    /\ passCount' = passCount + 1
    /\ budget' = Spend("passes")
    /\ UNCHANGED <<lsVars, now, tokens, ret, remote, apc, hist>>

\* the objects of a running pipeline stay those it filtered at its start, also
\* when the pass replaces playlists.value
DetachedApp(m) ==
    IF apc[m] # "idle" /\ app[m].live
    THEN [app[m] EXCEPT
            !.live = FALSE,
            !.objs = [id \in Range(app[m].changes) |->
                        playlists[m][IndexOfId(playlists[m], id)]]]
    ELSE app[m]

\* loadPlaylists from the end of the batch loop to its finally block
FinishPassWithoutUpsert(m, P, h) ==
    LET update == Len(P.playlistsToCache) > 0 /\ P.settings.enabled
        wrote == update /\ getSettings(lsSettings).enabled
        cleared == Len(P.modifiedPlaylistIds) > 0
        written == IF wrote THEN {P.playlistsToCache[k].id : k \in DOMAIN P.playlistsToCache}
                   ELSE {}
    IN  /\ lsCache' = lsCache
        /\ lsModified' = IF cleared THEN clearModifiedPlaylists(lsModified) ELSE lsModified
        /\ playlists' = [playlists EXCEPT ![m] = SortStates(P.playlistStates)]
        /\ loading' = [loading EXCEPT ![m] = FALSE]
        /\ pc' = [pc EXCEPT ![m] = "idle"]
        /\ pass' = [pass EXCEPT ![m] = IdlePass]
        /\ app' = [app EXCEPT ![m] = DetachedApp(m)]
        /\ hist' = [h EXCEPT !.dirty = @ \ written]
        /\ UNCHANGED lsSettings

FinishPass(m, P, h) ==
    LET update == Len(P.playlistsToCache) > 0 /\ P.settings.enabled
        wrote == update /\ getSettings(lsSettings).enabled
        cleared == Len(P.modifiedPlaylistIds) > 0
        written == IF wrote THEN {P.playlistsToCache[k].id : k \in DOMAIN P.playlistsToCache}
                   ELSE {}
    IN  /\ lsCache' = IF update
                      THEN updatePlaylists(lsCache, lsSettings, P.playlistsToCache, now)
                      ELSE lsCache
        /\ lsModified' = IF cleared THEN clearModifiedPlaylists(lsModified) ELSE lsModified
        /\ playlists' = [playlists EXCEPT ![m] = SortStates(P.playlistStates)]
        /\ loading' = [loading EXCEPT ![m] = FALSE]
        /\ pc' = [pc EXCEPT ![m] = "idle"]
        /\ pass' = [pass EXCEPT ![m] = IdlePass]
        /\ app' = [app EXCEPT ![m] = DetachedApp(m)]
        /\ hist' = [h EXCEPT !.dirty = @ \ written]
        /\ UNCHANGED lsSettings

BatchWhole(playlistsToFetch, i) ==
    SubSeq(playlistsToFetch, i + 1, Len(playlistsToFetch))

\* playlistsToFetch.slice(i, i + batchSize)
Batch(playlistsToFetch, i) ==
    SubSeq(playlistsToFetch, i + 1, Min(i + batchSize, Len(playlistsToFetch)))

\* the return at the head of the batch loop once the flag is set, then finally
AbortedReturn(m) ==
    /\ pc' = [pc EXCEPT ![m] = "idle"]
    /\ pass' = [pass EXCEPT ![m] = IdlePass]
    /\ loading' = [loading EXCEPT ![m] = FALSE]
    /\ UNCHANGED <<lsVars, playlists, app, hist>>

\* the playlists listing arrives: abort check, Modified-Set snapshot,
\* classification, and either the first batch of fetches or the end of the pass
ListingDone(m, listing) ==
    /\ pc[m] = "listing"
    /\ IF aborted[m]
       THEN /\ pc' = [pc EXCEPT ![m] = "idle"]
            /\ pass' = [pass EXCEPT ![m] = IdlePass]
            /\ loading' = [loading EXCEPT ![m] = FALSE]
            /\ UNCHANGED <<lsVars, cacheUsed, playlists, app, hist, alerts>>
       ELSE IF getModifiedPlaylists(lsModified) = NullIds
       THEN \* modifiedPlaylistIds.length throws: catch block, then finally
            /\ alerts' = [alerts EXCEPT ![m] = @ + 1]
            /\ pc' = [pc EXCEPT ![m] = "idle"]
            /\ pass' = [pass EXCEPT ![m] = IdlePass]
            /\ loading' = [loading EXCEPT ![m] = FALSE]
            /\ UNCHANGED <<lsVars, cacheUsed, playlists, app, hist>>
       ELSE LET P0 == [pass[m] EXCEPT
                         !.searchIds = IF findLibraryId # <<>>
                                       THEN <<SongId>> \o findLibraryId
                                       ELSE <<SongId>>,
                         !.modifiedPlaylistIds = getModifiedPlaylists(lsModified)]
                P1 == Classify(listing, P0, P0.modifiedPlaylistIds, P0.settings,
                               lsCache, lsSettings, now)
                n == Len(P1.playlistsToFetch)
                h == [hist EXCEPT !.servedStale = @ \cup (P1.hits \cap hist.dirty)]
            IN  /\ cacheUsed' = [cacheUsed EXCEPT ![m] = P1.cacheHits > 0]
                /\ IF n > 0
                   THEN /\ pc' = [pc EXCEPT ![m] = "fetching"]
                        /\ pass' = [pass EXCEPT ![m] =
                                      [P1 EXCEPT !.pending =
                                          Range(Batch(P1.playlistsToFetch, 0))]]
                        /\ hist' = h
                        /\ UNCHANGED <<lsVars, playlists, loading, app>>
                   ELSE FinishPass(m, P1, h)
                /\ UNCHANGED alerts
    /\ UNCHANGED <<now, tokens, ret, remote, mstate, aborted, processing, apc,
                   passCount, budget>>

\* a remote request returns (ok) or fails
RequestOutcome(ok) ==
    /\ ~ok => CanSpend("env")
    /\ budget' = IF ok THEN budget ELSE Spend("env")

FetchDonePropagating(m, p, ok) ==
    /\ pc[m] = "fetching"
    /\ p \in pass[m].pending
    /\ RequestOutcome(ok)
    /\ LET P == pass[m]
           allTracks == IF ok THEN remote[p] ELSE <<>>
           result == checkSongInPlaylistWithCache(p, allTracks, P.searchIds, now)
           P1 == [P EXCEPT
                    !.playlistsToCache = Append(@, result.cached),
                    !.results = [q \in (DOMAIN P.results) \cup {p} |->
                                    IF q = p THEN PlaylistState(p, result.found)
                                    ELSE P.results[q]],
                    !.pending = @ \ {p},
                    !.failed = IF ok THEN @ ELSE @ \cup {p}]
           batch == Batch(P.playlistsToFetch, P.i)
           P2 == [P1 EXCEPT
                    !.playlistStates = @ \o [k \in DOMAIN batch |-> P1.results[batch[k]]]]
       IN  IF ~ok
           THEN /\ pc' = [pc EXCEPT ![m] = "idle"]
                /\ pass' = [pass EXCEPT ![m] = IdlePass]
                /\ loading' = [loading EXCEPT ![m] = FALSE]
                /\ UNCHANGED <<lsVars, playlists, app, hist>>
           ELSE IF P1.pending # {}
           THEN /\ pass' = [pass EXCEPT ![m] = P1]
                /\ UNCHANGED <<lsVars, playlists, loading, pc, app, hist>>
           ELSE IF P.i + batchSize < Len(P.playlistsToFetch)
           THEN IF aborted[m]
                THEN AbortedReturn(m)
                ELSE /\ pc' = [pc EXCEPT ![m] = "batchDelay"]
                     /\ pass' = [pass EXCEPT ![m] = P2]
                     /\ UNCHANGED <<lsVars, playlists, loading, app, hist>>
           ELSE FinishPass(m, P2, hist)
    /\ UNCHANGED <<now, tokens, ret, remote, mstate, aborted, processing, cacheUsed, alerts,
                   apc, passCount>>

\* the track request of one playlist of the batch returns (ok) or throws;
\* when it is the last of the batch, Promise.all resolves and the pass goes on:
\* to the delay before the next batch, to the return at the loop head when the
\* flag is set, or past the loop when this was the last batch
FetchDone(m, p, ok) ==
    /\ pc[m] = "fetching"
    /\ p \in pass[m].pending
    /\ RequestOutcome(ok)
    /\ LET P == pass[m]
           allTracks == IF ok THEN remote[p] ELSE <<>>
           result == checkSongInPlaylistWithCache(p, allTracks, P.searchIds, now)
           P1 == [P EXCEPT
                    !.playlistsToCache = Append(@, result.cached),
                    !.results = [q \in (DOMAIN P.results) \cup {p} |->
                                    IF q = p THEN PlaylistState(p, result.found)
                                    ELSE P.results[q]],
                    !.pending = @ \ {p},
                    !.failed = IF ok THEN @ ELSE @ \cup {p}]
           batch == Batch(P.playlistsToFetch, P.i)
           P2 == [P1 EXCEPT
                    !.playlistStates = @ \o [k \in DOMAIN batch |-> P1.results[batch[k]]]]
       IN  IF P1.pending # {}
           THEN /\ pass' = [pass EXCEPT ![m] = P1]
                /\ UNCHANGED <<lsVars, playlists, loading, pc, app, hist>>
           ELSE IF P.i + batchSize < Len(P.playlistsToFetch)
           THEN IF aborted[m]
                THEN AbortedReturn(m)
                ELSE /\ pc' = [pc EXCEPT ![m] = "batchDelay"]
                     /\ pass' = [pass EXCEPT ![m] = P2]
                     /\ UNCHANGED <<lsVars, playlists, loading, app, hist>>
           ELSE FinishPass(m, P2, hist)
    /\ UNCHANGED <<now, tokens, ret, remote, mstate, aborted, processing, cacheUsed, alerts,
                   apc, passCount>>

\* the 100 ms between two batches are over: i += batchSize, the abort check
\* at the loop head, and the requests of the next batch
BatchDelayDone(m) ==
    /\ pc[m] = "batchDelay"
    /\ IF aborted[m]
       THEN AbortedReturn(m)
       ELSE /\ pc' = [pc EXCEPT ![m] = "fetching"]
            /\ pass' = [pass EXCEPT ![m] =
                          [@ EXCEPT !.i = @ + batchSize,
                                    !.pending = Range(Batch(pass[m].playlistsToFetch,
                                                            pass[m].i + batchSize))]]
            /\ UNCHANGED <<lsVars, playlists, loading, app, hist>>
    /\ UNCHANGED <<now, tokens, ret, remote, mstate, aborted, processing, cacheUsed, alerts,
                   apc, passCount, budget>>

closeModalAborted(m) == [aborted EXCEPT ![m] = TRUE]

closeModalState(m) == [mstate EXCEPT ![m] = "closed"]

\* closeModal from the title bar or the Cancel button
CloseModal(m) ==
    /\ mstate[m] = "open"
    /\ aborted' = closeModalAborted(m)
    /\ mstate' = closeModalState(m)
    /\ UNCHANGED <<lsVars, now, tokens, ret, remote, loading, processing, cacheUsed,
                   playlists, alerts, pc, pass, apc, app, passCount, budget, hist>>

\* a click on a row of the list, which is rendered when loading is false
TogglePlaylist(m, k) ==
    /\ mstate[m] = "open"
    /\ ~loading[m]
    /\ CanSpend("toggles")
    /\ k \in DOMAIN playlists[m]
    /\ playlists' = [playlists EXCEPT ![m][k].isInPlaylist = ~@]
    \* touched: the rows clicked after their call of the pipeline had succeeded
    /\ app' = [app EXCEPT ![m].touched =
                  IF playlists[m][k].id \in Range(app[m].applied)
                  THEN @ \cup {playlists[m][k].id} ELSE @]
    /\ budget' = Spend("toggles")
    /\ UNCHANGED <<lsVars, now, tokens, ret, remote, mstate, aborted, loading, processing,
                   cacheUsed, alerts, pc, pass, apc, passCount, hist>>

\* refreshPlaylists: clearCache, then loadPlaylists without awaiting it
RefreshPlaylists(m) ==
    /\ mstate[m] = "open"
    /\ ~loading[m]
    /\ pc[m] = "idle"
    /\ CanSpend("passes")
    /\ lsCache' = clearCache.cache
    /\ lsModified' = clearCache.modified
    /\ loading' = [loading EXCEPT ![m] = TRUE]
    /\ pc' = [pc EXCEPT ![m] = "listing"]
    /\ pass' = [pass EXCEPT ![m] = StartedPass]
    /\ passCount' = passCount + 1
    /\ budget' = Spend("passes")
    /\ hist' = [hist EXCEPT !.dirty = {}]
    /\ UNCHANGED <<lsSettings, now, tokens, ret, remote, mstate, aborted, processing, cacheUsed,
                   playlists, alerts, apc, app>>

(***************************************************************************)
(* applyChanges, addSongToPlaylist, removeSongFromPlaylist.  A failed call *)
(* stands for both ways the code throws: tokens missing before the write   *)
(* request, or a response that is not ok.  The remote append leaves a      *)
(* playlist that already holds the song as it is.                          *)
(***************************************************************************)
\* the PlaylistCheckState object a change refers to
ChangeObject(m, A, id) ==
    IF A.live THEN playlists[m][IndexOfId(playlists[m], id)] ELSE A.objs[id]

\* the head of one iteration of the for-loop: push the id, pick add or remove
CallFor(m, A, k) ==
    [app |-> [A EXCEPT !.i = k, !.modifiedIds = Append(@, A.changes[k])],
     apc |-> IF ChangeObject(m, A, A.changes[k]).isInPlaylist
             THEN "adding" ELSE "removeReading"]

ThrowsNever(call) == FALSE

\* addSongToPlaylist reads the tokens before it sends anything
ThrowsBeforeRequest(call) == call = "adding" /\ ~tokens

\* "Music tokens not available" is thrown and rethrown: the catch block of
\* applyChanges runs without a request having been sent
TokensMissing(m) ==
    /\ alerts' = [alerts EXCEPT ![m] = @ + 1]
    /\ processing' = [processing EXCEPT ![m] = FALSE]
    /\ apc' = [apc EXCEPT ![m] = "idle"]

ApplyChanges(m) ==
    /\ mstate[m] = "open"
    /\ ~processing[m]
    /\ hasChanges(m)
    /\ apc[m] = "idle"
    /\ CanSpend("applies")
    /\ LET Changed(p) == p.isInPlaylist # p.originalState
           changes == IdsOf(SelectSeq(playlists[m], Changed))
           first == CallFor(m, [IdleApp EXCEPT !.changes = changes], 1)
       IN  /\ app' = [app EXCEPT ![m] = first.app]
           /\ IF ThrowsBeforeRequest(first.apc)
              THEN TokensMissing(m)
              ELSE /\ apc' = [apc EXCEPT ![m] = first.apc]
                   /\ processing' = [processing EXCEPT ![m] = TRUE]
                   /\ UNCHANGED alerts
    /\ budget' = Spend("applies")
    /\ UNCHANGED <<lsVars, now, tokens, ret, remote, mstate, aborted, loading, cacheUsed,
                   playlists, pc, pass, passCount, hist>>

\* the Modified-Set record after the call of change A.i returned: the code
\* marks once, after the loop
markAfterSuccess(modifiedStored, A, last) ==
    IF last THEN markPlaylistsModified(modifiedStored, A.modifiedIds)
    ELSE modifiedStored

CallSucceededEvictingCache(m, changed) ==
    LET A == app[m]
        id == A.changes[A.i]
        last == ~(A.i < Len(A.changes))
        A1 == [A EXCEPT !.applied = Append(@, id)]
        A2 == IF A.live THEN A1
              ELSE [A1 EXCEPT !.objs[id].originalState = A.objs[id].isInPlaylist]
    IN  /\ playlists' =
              IF A.live
              THEN LET k == IndexOfId(playlists[m], id)
                   IN  [playlists EXCEPT ![m][k].originalState =
                                             playlists[m][k].isInPlaylist]
              ELSE playlists
        /\ app' = [app EXCEPT ![m] = A2]
        /\ lsModified' = markAfterSuccess(lsModified, A, last)
        /\ hist' = [hist EXCEPT !.dirty = IF changed THEN @ \cup {id} ELSE @]
        /\ IF last
           THEN /\ apc' = [apc EXCEPT ![m] = "idle"]
                /\ aborted' = closeModalAborted(m)
                /\ mstate' = closeModalState(m)
           ELSE /\ apc' = [apc EXCEPT ![m] = "delay"]
                /\ UNCHANGED <<aborted, mstate>>
        /\ lsCache' = LET Other(p) == p.id # id IN SelectSeq(lsCache, Other)
        /\ UNCHANGED <<lsSettings, processing, alerts>>

\* the add or remove call of change app[m].i returned without throwing
CallSucceededWithoutSync(m, changed) ==
    LET A == app[m]
        id == A.changes[A.i]
        last == ~(A.i < Len(A.changes))
        A1 == [A EXCEPT !.applied = Append(@, id)]
        A2 == IF A.live THEN A1
              ELSE A1
    IN  /\ playlists' =
              IF A.live
              THEN LET k == IndexOfId(playlists[m], id)
                   IN  playlists
              ELSE playlists
        /\ app' = [app EXCEPT ![m] = A2]
        /\ lsModified' = markAfterSuccess(lsModified, A, last)
        /\ hist' = [hist EXCEPT !.dirty = IF changed THEN @ \cup {id} ELSE @]
        /\ IF last
           THEN /\ apc' = [apc EXCEPT ![m] = "idle"]
                /\ aborted' = closeModalAborted(m)
                /\ mstate' = closeModalState(m)
           ELSE /\ apc' = [apc EXCEPT ![m] = "delay"]
                /\ UNCHANGED <<aborted, mstate>>
        /\ UNCHANGED <<lsCache, lsSettings, processing, alerts>>

CallSucceeded(m, changed) ==
    LET A == app[m]
        id == A.changes[A.i]
        last == ~(A.i < Len(A.changes))
        A1 == [A EXCEPT !.applied = Append(@, id)]
        A2 == IF A.live THEN A1
              ELSE [A1 EXCEPT !.objs[id].originalState = A.objs[id].isInPlaylist]
    IN  /\ playlists' =
              IF A.live
              THEN LET k == IndexOfId(playlists[m], id)
                   IN  [playlists EXCEPT ![m][k].originalState =
                                             playlists[m][k].isInPlaylist]
              ELSE playlists
        /\ app' = [app EXCEPT ![m] = A2]
        /\ lsModified' = markAfterSuccess(lsModified, A, last)
        /\ hist' = [hist EXCEPT !.dirty = IF changed THEN @ \cup {id} ELSE @]
        /\ IF last
           THEN /\ apc' = [apc EXCEPT ![m] = "idle"]
                /\ aborted' = closeModalAborted(m)
                /\ mstate' = closeModalState(m)
           ELSE /\ apc' = [apc EXCEPT ![m] = "delay"]
                /\ UNCHANGED <<aborted, mstate>>
        /\ UNCHANGED <<lsCache, lsSettings, processing, alerts>>

CallFailedContinuing(m) ==
    /\ alerts' = [alerts EXCEPT ![m] = @ + 1]
    /\ processing' = [processing EXCEPT ![m] = FALSE]
    /\ apc' = [apc EXCEPT ![m] = IF app[m].i < Len(app[m].changes)
                                  THEN "delay" ELSE "idle"]
    /\ UNCHANGED <<lsVars, playlists, app, hist, aborted, mstate>>

\* the call threw: the catch block of applyChanges
CallFailed(m) ==
    /\ alerts' = [alerts EXCEPT ![m] = @ + 1]
    /\ processing' = [processing EXCEPT ![m] = FALSE]
    /\ apc' = [apc EXCEPT ![m] = "idle"]
    /\ UNCHANGED <<lsVars, playlists, app, hist, aborted, mstate>>

AddDone(m, ok) ==
    /\ apc[m] = "adding"
    /\ RequestOutcome(ok)
    /\ LET p == app[m].changes[app[m].i]
       IN  IF ok
           THEN /\ remote' = [remote EXCEPT ![p] =
                                IF HasSong(@) THEN @ ELSE Append(@, SongTrack)]
                /\ CallSucceeded(m, ~HasSong(remote[p]))
           ELSE /\ CallFailed(m)
                /\ UNCHANGED remote
    /\ UNCHANGED <<now, tokens, ret, loading, cacheUsed, pc, pass, passCount>>

\* the track list read by removeSongFromPlaylist arrives (or the request throws)
RemoveReadDone(m, ok) ==
    /\ apc[m] = "removeReading"
    /\ RequestOutcome(ok)
    /\ LET p == app[m].changes[app[m].i]
           allTracks == IF ok THEN remote[p] ELSE <<>>
           NoMatch(track) == ~RemoveIsMatch(track, SongId)
           remainingTracks == SelectSeq(allTracks, NoMatch)
           found == \E k \in DOMAIN allTracks : RemoveIsMatch(allTracks[k], SongId)
       IN  IF ~found
           THEN CallSucceeded(m, FALSE)
           ELSE IF ~tokens
           THEN \* the token check before the PUT throws
                CallFailed(m)
           ELSE /\ app' = [app EXCEPT ![m].data = remainingTracks]
                /\ apc' = [apc EXCEPT ![m] = "removeWriting"]
                /\ UNCHANGED <<lsVars, playlists, hist, aborted, mstate, processing,
                               alerts>>
    /\ UNCHANGED <<now, tokens, ret, remote, loading, cacheUsed, pc, pass, passCount>>

\* the PUT of the replacement list returns
RemoveWriteDone(m, ok) ==
    /\ apc[m] = "removeWriting"
    /\ RequestOutcome(ok)
    /\ LET p == app[m].changes[app[m].i]
       IN  IF ok
           THEN /\ remote' = [remote EXCEPT ![p] = app[m].data]
                /\ CallSucceeded(m, HasSong(remote[p]) # HasSong(app[m].data))
           ELSE /\ CallFailed(m)
                /\ UNCHANGED remote
    /\ UNCHANGED <<now, tokens, ret, loading, cacheUsed, pc, pass, passCount>>

\* the 200 ms timer between two changes fires
ApplyDelayDone(m) ==
    /\ apc[m] = "delay"
    /\ LET next == CallFor(m, app[m], app[m].i + 1)
       IN  /\ app' = [app EXCEPT ![m] = next.app]
           /\ IF ThrowsBeforeRequest(next.apc)
              THEN TokensMissing(m)
              ELSE /\ apc' = [apc EXCEPT ![m] = next.apc]
                   /\ UNCHANGED <<processing, alerts>>
    /\ UNCHANGED <<lsVars, now, tokens, ret, remote, mstate, aborted, loading,
                   cacheUsed, playlists, pc, pass, passCount, budget, hist>>

(***************************************************************************)
(* Settings modal, src/src/plugin.config.ts, and the clock.                *)
(***************************************************************************)
\* the user flips the "enable caching" checkbox and saves
SettingsChoices ==
    {[enabled |-> ~getSettings(lsSettings).enabled,
      expirationMinutes |-> getSettings(lsSettings).expirationMinutes]}

SettingsSave ==
    /\ CanSpend("env")
    /\ \E settings \in SettingsChoices : lsSettings' = saveSettings(lsSettings, settings)
    /\ budget' = Spend("env")
    /\ UNCHANGED <<lsCache, lsModified, now, tokens, ret, remote, mstate, aborted, loading,
                   processing, cacheUsed, playlists, alerts, pc, pass, apc, app,
                   passCount, hist>>

SettingsClearCache ==
    /\ CanSpend("env")
    /\ lsCache' = clearCache.cache
    /\ lsModified' = clearCache.modified
    /\ budget' = Spend("env")
    /\ hist' = [hist EXCEPT !.dirty = {}]
    /\ UNCHANGED <<lsSettings, now, tokens, ret, remote, mstate, aborted, loading,
                   processing, cacheUsed, playlists, alerts, pc, pass, apc, app,
                   passCount>>

\* the clock moves on, by less or by more than the default expiration
Tick ==
    /\ CanSpend("env")
    /\ \E d \in {ShortTickMs, TickMs} : now' = now + d
    /\ budget' = Spend("env")
    /\ UNCHANGED <<lsVars, tokens, ret, remote, mstate, aborted, loading, processing,
                   cacheUsed, playlists, alerts, pc, pass, apc, app, passCount, hist>>

Next ==
    \/ \E m \in Modals : OpenModal(m)
    \/ \E m \in Modals, listing \in Listings : ListingDone(m, listing)
    \/ \E m \in Modals, p \in Playlists, ok \in BOOLEAN : FetchDone(m, p, ok)
    \/ \E m \in Modals : CloseModal(m)
    \/ \E m \in Modals, k \in 1..Cardinality(Playlists) : TogglePlaylist(m, k)
    \/ \E m \in Modals : RefreshPlaylists(m)
    \/ \E m \in Modals : ApplyChanges(m)
    \/ \E m \in Modals, ok \in BOOLEAN : AddDone(m, ok)
    \/ \E m \in Modals, ok \in BOOLEAN : RemoveReadDone(m, ok)
    \/ \E m \in Modals, ok \in BOOLEAN : RemoveWriteDone(m, ok)
    \/ \E m \in Modals : ApplyDelayDone(m)
    \/ SettingsSave
    \/ SettingsClearCache
    \/ Tick

Spec == Init /\ [][Next]_vars

(***************************************************************************)
(* Overlapping-instances specification: the same modal actions with more   *)
(* passes and pipelines, every request succeeding, the full listing, no    *)
(* settings change and no clock step.                                      *)
(***************************************************************************)
OverlapInit ==
    /\ lsCache = <<>>
    /\ lsSettings = <<>>
    /\ lsModified = <<>>
    /\ now = 0
    /\ ret = [op |-> "none"]
    /\ ModalIdle
    /\ remote = InitialRemote
    /\ budget = OverlapBudget0

OverlapNext ==
    \/ \E m \in Modals : OpenModal(m)
    \/ \E m \in Modals : ListingDone(m, ListingOrder)
    \/ \E m \in Modals, p \in Playlists : FetchDone(m, p, TRUE)
    \/ \E m \in Modals : CloseModal(m)
    \/ \E m \in Modals, k \in 1..Cardinality(Playlists) : TogglePlaylist(m, k)
    \/ \E m \in Modals : RefreshPlaylists(m)
    \/ \E m \in Modals : ApplyChanges(m)
    \/ \E m \in Modals : AddDone(m, TRUE)
    \/ \E m \in Modals : RemoveReadDone(m, TRUE)
    \/ \E m \in Modals : RemoveWriteDone(m, TRUE)
    \/ \E m \in Modals : ApplyDelayDone(m)

SpecOverlap == OverlapInit /\ [][OverlapNext]_vars

(***************************************************************************)
(* Remove-path specification: the same modal actions, every request        *)
(* succeeding, on a library in which the first playlist holds the managed  *)
(* song once or holds it twice (the Music app lets a user add a song to a  *)
(* playlist again).                                                        *)
(***************************************************************************)
RemoveRemotes ==
    {[p \in Playlists |-> IF p = "p1" THEN tracks ELSE <<OtherTrack>>] :
        tracks \in {<<OtherTrack, SongTrack>>,
                    <<SongTrack, OtherTrack, SongTrack>>}}

RemoveInit ==
    /\ lsCache = <<>>
    /\ lsSettings = <<>>
    /\ lsModified = <<>>
    /\ now = 0
    /\ ret = [op |-> "none"]
    /\ ModalIdle
    /\ remote \in RemoveRemotes
    /\ budget = [Budget0 EXCEPT !.env = 0]

SpecRemove == RemoveInit /\ [][OverlapNext]_vars

(***************************************************************************)
(* Properties of the PlaylistCache methods (checked under SpecCache).      *)
(***************************************************************************)
ReadOps == {"getCachedPlaylist", "isSongInPlaylist", "getModifiedPlaylists",
            "getSettings", "getStats"}

StoredWithId(id) == {i \in DOMAIN lsCache : lsCache[i].id = id}

EnabledNow == getSettings(lsSettings).enabled

ExpirationMsNow == getSettings(lsSettings).expirationMinutes * 60 * 1000

\* C8: getCachedPlaylist(id) returns the stored entry exactly when an entry
\* with that id is stored, caching is enabled and now - cachedAt is at most
\* expirationMinutes * 60s; an entry whose age equals the expiration is present.
C8_GetIffStoredEnabledFresh ==
    ret.op = "getCachedPlaylist" =>
        /\ (ret.val # <<>>) <=>
              /\ StoredWithId(ret.id) # {}
              /\ EnabledNow
              /\ \E i \in StoredWithId(ret.id) :
                    now - lsCache[i].cachedAt <= ExpirationMsNow
        /\ ret.val # <<>> => \E i \in StoredWithId(ret.id) : ret.val[1] = lsCache[i]

C8_Witness ==
    /\ ret.op = "getCachedPlaylist"
    /\ ret.val # <<>>
    /\ now - ret.val[1].cachedAt = ExpirationMsNow

\* C9: a call of getCachedPlaylist, isSongInPlaylist, getModifiedPlaylists,
\* getSettings or getStats leaves the stored cache table, settings record and
\* Modified-Set as they were, also for an expired entry or with caching disabled.
C9_ReadsLeaveStorage ==
    [][ret'.op \in ReadOps => lsVars' = lsVars]_vars

C9_Witness ==
    /\ ret.op = "getCachedPlaylist"
    /\ ret.val = <<>>
    /\ EnabledNow
    /\ \E i \in StoredWithId(ret.id) : now - lsCache[i].cachedAt > ExpirationMsNow

\* C10: with caching disabled, updatePlaylists leaves the stored cache table
\* exactly as it was.
C10_DisabledUpdateIsNoOp ==
    [][(ret'.op = "updatePlaylists" /\ ~EnabledNow) => lsCache' = lsCache]_vars

C10_Witness ==
    /\ ret.op = "updatePlaylists"
    /\ ~EnabledNow
    /\ lsCache # <<>>
    /\ \E i \in DOMAIN ret.list : StoredWithId(ret.list[i].id) = {}
    /\ \E i \in DOMAIN ret.list : StoredWithId(ret.list[i].id) # {}

\* the stored entries of one playlist id
EntriesOf(cache, id) == {cache[i] : i \in {j \in DOMAIN cache : cache[j].id = id}}

\* C11: with caching enabled, after updatePlaylists([X]) a getCachedPlaylist(X.id)
\* returns X with cachedAt set to the time of the write; nothing of the prior
\* entry of X.id is kept, and the entries of every other id are unchanged.
C11_UpsertThenGetRoundTrip ==
    [][(ret'.op = "updatePlaylists" /\ Len(ret'.list) = 1 /\ EnabledNow) =>
          LET X == ret'.list[1]
          IN  /\ getCachedPlaylist(lsCache', lsSettings', X.id, now')
                    = <<[X EXCEPT !.cachedAt = now]>>
              /\ EntriesOf(lsCache', X.id) = {[X EXCEPT !.cachedAt = now]}
              /\ \A id \in Playlists \ {X.id} :
                    EntriesOf(lsCache', id) = EntriesOf(lsCache, id)]_vars

\* a one-element upsert that replaced the older first entry of the table, at a
\* time later than the one the snapshot was built at, next to another id's entry
C11_Witness ==
    /\ ret.op = "updatePlaylists"
    /\ Len(ret.list) = 1
    /\ EnabledNow
    /\ Len(lsCache) = 2
    /\ lsCache[1].id = ret.list[1].id
    /\ lsCache[1].cachedAt = now
    /\ ret.list[1].cachedAt < now
    /\ lsCache[1].tracks # <<>>
    /\ lsCache[2].id # ret.list[1].id

\* C12: the stored cache table never holds two entries with the same playlist
\* id, whatever sequence of updatePlaylists (also with a list that repeats an
\* id), clearCache and saveSettings calls produced it.
C12_OneEntryPerId ==
    \A id \in Playlists : Cardinality(StoredWithId(id)) <= 1

\* an upsert list that names one id twice was written: one entry, the later one
C12_Witness ==
    /\ ret.op = "updatePlaylists"
    /\ EnabledNow
    /\ Len(ret.list) = 2
    /\ ret.list[1].id = ret.list[2].id
    /\ \E i \in StoredWithId(ret.list[1].id) :
          /\ lsCache[i].tracks = ret.list[2].tracks
          /\ lsCache[i].cachedAt = now

\* C13: clearCache removes the whole cache table and the whole Modified-Set in
\* one call and leaves the settings record as it was; afterwards getStats
\* reports 0 playlists and getModifiedPlaylists is empty, and one more
\* clearCache leaves storage in that same state.
C13_ClearCacheClearsBoth ==
    [][ret'.op = "clearCache" =>
          /\ lsCache' = <<>>
          /\ lsModified' = <<>>
          /\ lsSettings' = lsSettings
          /\ getStats(lsCache', lsSettings', lsModified', now').totalPlaylists = 0
          /\ getModifiedPlaylists(lsModified') = <<>>
          /\ StoreOf(clearCache.cache, lsSettings', clearCache.modified)
                = StoreOf(lsCache', lsSettings', lsModified')]_vars

\* clearCache was called with caching enabled and a settings record persisted
C13_Witness ==
    /\ ret.op = "clearCache"
    /\ lsSettings # <<>>
    /\ EnabledNow
    /\ lsCache = <<>>
    /\ lsModified = <<>>
    /\ getStats(lsCache, lsSettings, lsModified, now).modifiedPlaylists = 0

\* the entries getCachedPlaylist reports in the state after the step
PresentNext(id) == getCachedPlaylist(lsCache', lsSettings', id, now')

\* C14: a saveSettings that disables caching leaves the cache table in storage
\* and makes getCachedPlaylist report every entry absent; while caching is
\* disabled only clearCache changes the table; a saveSettings that enables
\* caching again makes every stored entry whose age is within the expiration
\* present again, unchanged (same tracks, same cachedAt).
C14_DisableHidesEnableRestores ==
    [][/\ (ret'.op = "saveSettings" /\ EnabledNow /\ ~EnabledNow') =>
              /\ lsCache' = lsCache
              /\ \A id \in Playlists : PresentNext(id) = <<>>
       /\ (~EnabledNow /\ ret'.op # "clearCache") => lsCache' = lsCache
       /\ (ret'.op = "saveSettings" /\ ~EnabledNow /\ EnabledNow') =>
              /\ lsCache' = lsCache
              /\ \A i \in DOMAIN lsCache :
                    now' - lsCache[i].cachedAt
                        <= getSettings(lsSettings').expirationMinutes * 60 * 1000
                    => PresentNext(lsCache[i].id) = <<lsCache[i]>>]_vars

\* caching was switched back on and an entry cached earlier is present again
C14_Witness ==
    /\ ret.op = "saveSettings"
    /\ ~ret.current.enabled
    /\ EnabledNow
    /\ \E i \in DOMAIN lsCache :
          /\ lsCache[i].cachedAt < now
          /\ getCachedPlaylist(lsCache, lsSettings, lsCache[i].id, now) = <<lsCache[i]>>

\* C15: getSettings returns {enabled: true, expirationMinutes: 5} when no
\* settings record is stored or the stored text does not parse; for a stored
\* record, each field it holds is returned as stored and each field it lacks
\* is returned with its default.
C15_SettingsDefaults ==
    ret.op = "getSettings" =>
        IF lsSettings = <<>> \/ lsSettings = <<Unparsable>>
        THEN ret.val = [enabled |-> TRUE, expirationMinutes |-> 5]
        ELSE /\ DOMAIN ret.val = {"enabled", "expirationMinutes"}
             /\ ret.val.enabled =
                   IF "enabled" \in DOMAIN lsSettings[1]
                   THEN lsSettings[1].enabled ELSE TRUE
             /\ ret.val.expirationMinutes =
                   IF "expirationMinutes" \in DOMAIN lsSettings[1]
                   THEN lsSettings[1].expirationMinutes ELSE 5

\* getSettings read a stored record that holds the enabled field only
C15_Witness ==
    /\ ret.op = "getSettings"
    /\ lsSettings = <<[enabled |-> FALSE]>>
    /\ ret.val = [enabled |-> FALSE, expirationMinutes |-> 5]

\* getSettings read a stored text that does not parse
C15_WitnessUnparsable ==
    /\ ret.op = "getSettings"
    /\ lsSettings = <<Unparsable>>
    /\ ret.val.enabled

\* C16: saveSettings(partial) stores a full settings record in which each field
\* of partial has the value given and each other field has the value
\* getSettings returned before the call; the cache table and the Modified-Set
\* are left as they were.
C16_SaveSettingsMerges ==
    [][ret'.op = "saveSettings" =>
          LET before == getSettings(lsSettings)
              partial == ret'.partial
          IN  /\ Len(lsSettings') = 1
              /\ DOMAIN lsSettings'[1] = {"enabled", "expirationMinutes"}
              /\ \A k \in {"enabled", "expirationMinutes"} :
                    lsSettings'[1][k] =
                        IF k \in DOMAIN partial THEN partial[k] ELSE before[k]
              /\ getSettings(lsSettings') = lsSettings'[1]
              /\ lsCache' = lsCache
              /\ lsModified' = lsModified]_vars

\* only the expiration was saved over a record with caching disabled, with a
\* cache table and a Modified-Set in storage
C16_Witness ==
    /\ ret.op = "saveSettings"
    /\ ret.partial = [expirationMinutes |-> 1]
    /\ ret.current = [enabled |-> FALSE, expirationMinutes |-> 5]
    /\ lsSettings = <<[enabled |-> FALSE, expirationMinutes |-> 1]>>
    /\ lsCache # <<>>
    /\ lsModified # <<>>

(***************************************************************************)
(* Properties of the reconciliation pass and of the mutation pipeline.     *)
(***************************************************************************)
Running(m) == pc[m] \in {"listing", "fetching", "batchDelay"}

\* a step of the pass of instance m
PassStep(m) == Running(m) /\ pass'[m] # pass[m]

\* the step in which the pass of instance m runs to its end (no abort return)
PassCompletes(m) ==
    \/ /\ pc[m] = "fetching" /\ pc'[m] = "idle"
       /\ ~(pass[m].i + batchSize < Len(pass[m].playlistsToFetch))
    \/ pc[m] = "listing" /\ ~aborted[m] /\ pc'[m] = "idle"

\* the Modified-Set snapshot of the pass of instance m, as of the step it ends in
SnapshotOf(m) ==
    IF pc[m] = "listing" THEN getModifiedPlaylists(lsModified)
    ELSE pass[m].modifiedPlaylistIds

\* the playlists the classification step of instance m answered from the cache
ServedFromCacheNext(m) ==
    IF pc'[m] = "fetching" THEN pass'[m].hits ELSE Range(IdsOf(playlists'[m]))

\* C1: once applyChanges has changed playlist P, no pass serves P's verdict
\* from a cache entry written before that change.
C1_NoStaleVerdictAfterChange == hist.servedStale = {}

\* C2: at the step in which the add or remove call of a change returns
\* successfully, that playlist is in the Modified-Set (marked at once, not
\* after the loop).
C2_MarkedAtEachSuccess ==
    [][\A m \in Modals :
          Len(app'[m].applied) = Len(app[m].applied) + 1 =>
              app'[m].applied[Len(app'[m].applied)] \in Range(lsModified')]_vars

\* C3: a pass that runs to its end removes from the Modified-Set exactly the
\* ids of its snapshot; an id marked after the snapshot was read stays.
C3_ClearsExactlyTheSnapshot ==
    [][\A m \in Modals :
          PassCompletes(m) =>
              Range(lsModified') = Range(lsModified) \ Range(SnapshotOf(m))]_vars

\* C4: when a non-cancelled pass runs to its end, every id of its snapshot is
\* out of the Modified-Set and has a cache entry not older than the pass start.
C4_SnapshotRefetchedBeforeClear ==
    [][\A m \in Modals :
          (PassCompletes(m) /\ ~aborted[m]) =>
              \A P \in Range(SnapshotOf(m)) :
                  /\ P \notin Range(lsModified')
                  /\ \E k \in DOMAIN lsCache' :
                        /\ lsCache'[k].id = P
                        /\ lsCache'[k].cachedAt >= pass[m].startedAt]_vars

\* C5: a playlist whose id is in the Modified-Set snapshot of a pass is never
\* answered from the cache by the classification of that pass.
C5_ModifiedNeverServedFromCache ==
    [][\A m \in Modals :
          (pc[m] = "listing" /\ ~aborted[m] /\ pc'[m] # "listing") =>
              \A P \in Range(getModifiedPlaylists(lsModified)) :
                  P \notin ServedFromCacheNext(m)]_vars

C5_Witness ==
    \E m \in Modals :
        /\ pc[m] = "fetching"
        /\ pass[m].settings.enabled
        /\ \E P \in Range(pass[m].modifiedPlaylistIds) :
              /\ P \in Range(pass[m].playlistsToFetch)
              /\ getCachedPlaylist(lsCache, lsSettings, P, now) # <<>>

\* C6: once the abort flag is set, the running pass writes no cache entry,
\* clears no Modified-Set and assigns no result to playlists.
C6_NoEffectAfterAbort ==
    [][\A m \in Modals :
          (aborted[m] /\ PassStep(m)) =>
              /\ lsCache' = lsCache
              /\ lsModified' = lsModified
              /\ playlists'[m] = playlists[m]]_vars

\* C7: a cancelled pass writes no cache entry and clears no Modified-Set
\* after a later pass has started.
C7_NoLateWriteOfCancelledPass ==
    [][\A m \in Modals :
          (aborted[m] /\ PassStep(m) /\ passCount > pass[m].no) =>
              /\ lsCache' = lsCache
              /\ lsModified' = lsModified]_vars

(***************************************************************************)
(* Properties of the classification step and of the pipeline's failure     *)
(* path.                                                                   *)
(***************************************************************************)
\* the listing the classification step of instance m went over
ListedNext(m) ==
    IF pc'[m] = "fetching"
    THEN pass'[m].hits \cup Range(pass'[m].playlistsToFetch)
    ELSE Range(IdsOf(playlists'[m]))

\* the states the classification step of instance m pushed for its cache hits
HitStatesNext(m) ==
    IF pc'[m] = "fetching" THEN pass'[m].playlistStates ELSE playlists'[m]

\* the classification step of instance m
Classifies(m) == pc[m] = "listing" /\ ~aborted[m] /\ pc'[m] # "listing"

\* C17: with caching enabled (when the pass read its settings and when it
\* classifies), a listed playlist that has an unexpired cache entry and is not
\* in the Modified-Set is answered from the cache and gets no track-list fetch;
\* the verdict is tracks.includes(songId) of the stored entry, so two such
\* answers from an unchanged entry are the same.
C17_FreshUnmodifiedServedFromCache ==
    [][\A m \in Modals :
          (Classifies(m) /\ pass[m].settings.enabled /\ EnabledNow) =>
              \A P \in ListedNext(m) :
                  LET entry == getCachedPlaylist(lsCache, lsSettings, P, now)
                      states == HitStatesNext(m)
                  IN  (entry # <<>> /\ P \notin Range(lsModified)) =>
                          /\ P \in ServedFromCacheNext(m)
                          /\ pc'[m] = "fetching" =>
                                /\ P \notin Range(pass'[m].playlistsToFetch)
                                /\ P \notin pass'[m].pending
                          /\ states[IndexOfId(states, P)].isInPlaylist
                                = Includes(entry[1].tracks, SongId)]_vars

\* a pass answered a playlist that holds the song from a cache entry written
\* some time ago (member) and is fetching another one
C17_Witness ==
    \E m \in Modals :
        /\ pc[m] = "fetching"
        /\ pass[m].settings.enabled
        /\ \E P \in pass[m].hits :
              /\ P \notin pass[m].pending
              /\ P \notin Range(lsModified)
              /\ getCachedPlaylist(lsCache, lsSettings, P, now) # <<>>
              /\ getCachedPlaylist(lsCache, lsSettings, P, now)[1].cachedAt < now
              /\ pass[m].playlistStates[IndexOfId(pass[m].playlistStates, P)].isInPlaylist

\* C18: when caching is disabled (in the settings the pass read at its start,
\* or in storage at the moment of the step), the classification sends every
\* playlist of the listing to the fetch list, pushes no state from the cache
\* and sets the cache-used indicator to false, and no step of the pass
\* changes the cache table.
C18_DisabledPassFetchesAll ==
    [][\A m \in Modals :
          (~pass[m].settings.enabled \/ ~EnabledNow) =>
              /\ Classifies(m) =>
                    /\ pc'[m] = "fetching"
                    /\ pass'[m].hits = {}
                    /\ pass'[m].playlistStates = <<>>
                    /\ ListedNext(m) = Range(pass'[m].playlistsToFetch)
                    /\ ~cacheUsed'[m]
              /\ PassStep(m) => lsCache' = lsCache]_vars

\* a pass that read caching as disabled is fetching every listed playlist
\* while storage holds an entry young enough to be served
C18_Witness ==
    \E m \in Modals :
        /\ pc[m] = "fetching"
        /\ ~pass[m].settings.enabled
        /\ ~cacheUsed[m]
        /\ Len(pass[m].playlistsToFetch) = 2
        /\ \E k \in DOMAIN lsCache :
              /\ lsCache[k].id \in Range(pass[m].playlistsToFetch)
              /\ now - lsCache[k].cachedAt <= ExpirationMsNow

\* the step in which the add request or the replace request of instance m
\* comes back failed
CallFails(m) ==
    /\ apc[m] \in {"adding", "removeWriting"}
    /\ apc'[m] # apc[m]
    /\ budget'.env < budget.env

\* C19: when the add or remove call of one change fails, applyChanges raises
\* the failure alert, resets processing to false, does not close the modal and
\* marks nothing, and the pipeline is over: no call is issued for a later
\* change of that diff (the next call can only be the first one of a pipeline
\* started by a new applyChanges).
C19_FailureStopsPipeline ==
    [][\A m \in Modals :
          /\ CallFails(m) =>
                /\ alerts'[m] = alerts[m] + 1
                /\ ~processing'[m]
                /\ mstate'[m] = mstate[m]
                /\ aborted'[m] = aborted[m]
                /\ apc'[m] = "idle"
                /\ app'[m].applied = app[m].applied
                /\ app'[m].i = app[m].i
          /\ (apc[m] = "idle" /\ apc'[m] # "idle") =>
                /\ app'[m].i = 1
                /\ ~processing[m]
                /\ processing'[m]]_vars

\* the call of the first of two changes failed: alert raised, modal open,
\* processing reset, the second change never called
C19_Witness ==
    \E m \in Modals :
        /\ alerts[m] = 1
        /\ ~processing[m]
        /\ mstate[m] = "open"
        /\ apc[m] = "idle"
        /\ Len(app[m].changes) = 2
        /\ app[m].i = 1
        /\ app[m].applied = <<>>

\* the first entry of a fetched track list that matches the target song
FirstMatch(allTracks) ==
    CHOOSE k \in DOMAIN allTracks :
        /\ RemoveIsMatch(allTracks[k], SongId)
        /\ \A j \in 1..(k - 1) : ~RemoveIsMatch(allTracks[j], SongId)

\* C20: when at least one fetched entry matches the target song, the list
\* removeSongFromPlaylist sends in the replace call is the fetched list without
\* its first matching entry and nothing else, one entry shorter, also when
\* several entries match.
C20_ReplacementDropsFirstMatchOnly ==
    [][\A m \in Modals :
          (apc[m] = "removeReading" /\ apc'[m] = "removeWriting") =>
              LET allTracks == remote[app[m].changes[app[m].i]]
                  k == FirstMatch(allTracks)
              IN  /\ Len(app'[m].data) = Len(allTracks) - 1
                  /\ app'[m].data = SubSeq(allTracks, 1, k - 1)
                                      \o SubSeq(allTracks, k + 1, Len(allTracks))]_vars

(***************************************************************************)
(* Properties of what writes the persisted records.                        *)
(***************************************************************************)
\* the playlists whose track request failed in the pass of instance m, the
\* request that fails in this very step included
FailedNext(m) ==
    pass[m].failed
    \cup (IF pc[m] = "fetching" /\ pass'[m] # pass[m] /\ budget'.env < budget.env
          THEN pass[m].pending \ (IF pc'[m] = "fetching" THEN pass'[m].pending ELSE {})
          ELSE {})

\* C21: a cache entry is created or overwritten only by the step in which a
\* reconciliation pass ends, and only for playlists whose track fetch
\* succeeded in that pass: a playlist whose fetch failed keeps the entry it
\* had (or none).
C21_CachedOnlyAfterSuccessfulFetch ==
    [][\A id \in Playlists :
          (EntriesOf(lsCache', id) # EntriesOf(lsCache, id)
           /\ EntriesOf(lsCache', id) # {}) =>
              \E m \in Modals :
                  /\ PassCompletes(m)
                  /\ id \notin FailedNext(m)]_vars

\* a step of the pipeline of instance m: applyChanges starts, a request of an
\* add or remove call returns, or the timer between two changes fires
PipelineStep(m) == apc'[m] # apc[m]

CorruptCaches == {UnparsableCache, <<ApiEntry("p1", 0, <<SongLibraryId, SongId>>)>>}

CorruptSettings == {<<>>, <<Unparsable>>}

CorruptIdLists == {UnparsableIds, NullIds, <<"p1">>}

CorruptInit ==
    /\ lsCache \in CorruptCaches
    /\ lsSettings \in CorruptSettings
    /\ lsModified \in CorruptIdLists
    /\ now = ApiNow0
    /\ ret = [op |-> "none"]
    /\ remote = InitialRemote
    /\ budget = Budget0
    /\ ModalIdle

CorruptNext ==
    \/ /\ passCount = 0
       /\ ApiNext
    \/ /\ ret.op = "none"
       /\ \/ \E m \in Modals : OpenModal(m)
          \/ \E m \in Modals, listing \in Listings : ListingDone(m, listing)
          \/ \E m \in Modals, p \in Playlists : FetchDone(m, p, TRUE)
          \/ \E m \in Modals : CloseModal(m)
          \/ \E m \in Modals, k \in 1..Cardinality(Playlists) : TogglePlaylist(m, k)
          \/ \E m \in Modals : ApplyChanges(m)
          \/ \E m \in Modals : AddDone(m, TRUE)
          \/ \E m \in Modals : RemoveReadDone(m, TRUE)
          \/ \E m \in Modals : RemoveWriteDone(m, TRUE)
          \/ \E m \in Modals : ApplyDelayDone(m)

SpecCorrupt == CorruptInit /\ [][CorruptNext]_vars

IsIdList(v) == v \in Seq(Playlists)

\* C23: when any of the three stored records holds corrupt JSON (unparseable
\* or of the wrong shape), every PlaylistCache operation still returns: the
\* Modified-Set reads as a list of playlist ids, the statistics are produced,
\* and neither loadPlaylists nor applyChanges raises its error alert.
C23_CorruptRecordsRecovered ==
    /\ ret.op = "getModifiedPlaylists" => IsIdList(ret.val)
    /\ ret.op = "getStats" => ret.val # Threw
    /\ \A m \in Modals : alerts[m] = 0

\* C24: after markPlaylistsModified(ids) the Modified-Set read back holds
\* exactly the prior set (empty when the record was missing or corrupt)
\* united with ids, without duplicates, and a second identical call leaves
\* the stored record as it is.
C24_MarkIsIdempotentUnion ==
    [][(ret'.op = "markPlaylistsModified" /\ ret' # ret) =>
          LET prior == IF lsModified \in {UnparsableIds, NullIds} THEN {}
                       ELSE Range(lsModified)
              after == getModifiedPlaylists(lsModified')
          IN  /\ IsIdList(after)
              /\ Range(after) = prior \cup Range(ret'.ids)
              /\ \A i, j \in DOMAIN after : after[i] = after[j] => i = j
              /\ markPlaylistsModified(lsModified', ret'.ids) = lsModified']_vars

\* ---------------------------------------------------------------------------
\* The pagination loop of checkSongInPlaylistWithCache and of
\* removeSongFromPlaylist, one page request per step.  ret holds the loop's
\* locals; allTracks is kept as the number of tracks collected so far.

limit == 100

maxOffset == 1000

PageTotals == {0, 50, 100, 250, 900, 1000, 1001, 1100, 1200}

PagePaths == {"checkSongInPlaylistWithCache", "removeSongFromPlaylist"}

\* the position of the song in the playlist, 0 when it is not in it
SongPositions == {0, 1, 101}

PageLoop(path, total, songAt) ==
    [op |-> "pages", path |-> path, total |-> total, songAt |-> songAt, offset |-> 0,
     allTracks |-> 0, hasMore |-> TRUE, looping |-> TRUE, requests |-> 0]

PagesInit ==
    /\ lsCache = <<>>
    /\ lsSettings = <<>>
    /\ lsModified = <<>>
    /\ now = 0
    /\ ret \in {PageLoop(path, total, songAt) :
                    path \in PagePaths, total \in PageTotals, songAt \in SongPositions}
    /\ ret.songAt <= ret.total
    /\ remote = InitialRemote
    /\ budget = Budget0
    /\ ModalIdle

\* the slice of the playlist the API returns for { limit, offset }
PageLength(total, offset) ==
    IF total <= offset THEN 0 ELSE Min(limit, total - offset)

\* one iteration of while (hasMore): the request returns a page or throws
PageRequestDone(ok) ==
    /\ ret.op = "pages"
    /\ ret.looping /\ ret.hasMore
    /\ RequestOutcome(ok)
    /\ LET tracks == PageLength(ret.total, ret.offset)
           sent == [ret EXCEPT !.requests = @ + 1]
       IN  ret' = IF ~ok
                  THEN [sent EXCEPT !.hasMore = FALSE, !.looping = FALSE]
                  ELSE IF tracks = 0
                  THEN [sent EXCEPT !.hasMore = FALSE, !.looping = FALSE]
                  ELSE [sent EXCEPT !.allTracks = @ + tracks,
                                    !.hasMore = (tracks = limit),
                                    !.offset = @ + limit,
                                    !.looping = ~(ret.offset + limit > maxOffset)]
    /\ UNCHANGED <<lsVars, now, tokens, remote, mstate, aborted, loading, processing,
                   cacheUsed, playlists, alerts, pc, pass, apc, app, passCount, hist>>

\* closeModal sets the abort flag while the loop is suspended at a request
PageAbort ==
    /\ ret.op = "pages"
    /\ ~aborted["m1"]
    /\ aborted' = closeModalAborted("m1")
    /\ UNCHANGED <<lsVars, now, tokens, ret, remote, budget, mstate, loading, processing,
                   cacheUsed, playlists, alerts, pc, pass, apc, app, passCount, hist>>

\* removeSongFromPlaylist after its loop: nothing to remove, or the PUT of
\* the collected tracks without the song, which succeeds and replaces the
\* track list of the playlist
PageRemoveDone ==
    /\ ret.op = "pages"
    /\ ret.path = "removeSongFromPlaylist"
    /\ ~(ret.looping /\ ret.hasMore)
    /\ LET found == ret.songAt \in 1..ret.allTracks
       IN  ret' = IF ~found
                  THEN [op |-> "nothingToRemove", total |-> ret.total]
                  ELSE [op |-> "replaced", total |-> ret.total,
                        remainingTracks |-> ret.allTracks - 1]
    /\ UNCHANGED <<lsVars, now, remote, modalVars>>

PagesNext ==
    \/ \E ok \in BOOLEAN : PageRequestDone(ok)
    \/ PageAbort
    \/ PageRemoveDone

SpecPages == PagesInit /\ [][PagesNext]_vars

\* C25: the pagination of one playlist, in the membership check and in the
\* remove path alike, sends at most 10 page requests and collects at most
\* 1000 tracks.
C25_PaginationCap ==
    ret.op = "pages" => /\ ret.requests <= 10
                        /\ ret.allTracks <= 1000

\* the requests and tracks the loop can reach with the code's test offset > 1000
C25_TracksAtMostLimitPastCap ==
    ret.op = "pages" => /\ ret.requests <= maxOffset \div limit + 1
                        /\ ret.allTracks <= maxOffset + limit

\* ---------------------------------------------------------------------------
\* A library of twelve playlists, none cached: the pass needs two batches.
\* One modal is opened; every request succeeds, and the requests of a batch
\* complete in listing order or with the next one overtaking (BatchWindow).

BatchWindow == 2

BatchListing ==
    <<"p1", "p2", "p3", "p4", "p5", "p6", "p7", "p8", "p9", "p10", "p11", "p12">>

BatchRemote ==
    [p \in BatchIds |-> IF p = "p1" THEN <<OtherTrack, SongTrack>> ELSE <<OtherTrack>>]

BatchInit ==
    /\ lsCache = <<>>
    /\ lsSettings = <<>>
    /\ lsModified \in {<<>>, <<"p1">>}
    /\ now = 0
    /\ ret = [op |-> "none"]
    /\ ModalIdle
    /\ remote = BatchRemote
    /\ budget = [Budget0 EXCEPT !.passes = 1]

\* p is among the first BatchWindow playlists of the listing still in flight
ListingIndex(id) == CHOOSE k \in DOMAIN BatchListing : BatchListing[k] = id

InWindow(m, p) ==
    Cardinality({q \in pass[m].pending : ListingIndex(q) < ListingIndex(p)}) < BatchWindow

BatchNext ==
    \/ \E m \in Modals : OpenModal(m)
    \/ \E m \in Modals : ListingDone(m, BatchListing)
    \/ \E m \in Modals, p \in BatchIds : InWindow(m, p) /\ FetchDone(m, p, TRUE)
    \/ \E m \in Modals : BatchDelayDone(m)
    \/ \E m \in Modals : CloseModal(m)

SpecBatch == BatchInit /\ [][BatchNext]_vars

\* the playlists of playlistsToFetch that precede the batch starting at i
BeforeBatch(P) == {P.playlistsToFetch[k] : k \in 1..P.i}

\* C26: a pass has at most 10 membership fetches in flight, and it sends the
\* requests of a batch only when none of an earlier batch is in flight and
\* every playlist of the earlier batches has its result.
C26_BatchesOfTen ==
    [][\A m \in Modals :
          /\ Cardinality(pass'[m].pending) <= 10
          /\ pass'[m].pending \ pass[m].pending # {} =>
                /\ pass[m].pending = {}
                /\ BeforeBatch(pass'[m]) \subseteq DOMAIN pass'[m].results
                /\ pass'[m].pending \cap BeforeBatch(pass'[m]) = {}]_vars

C26_Witness ==
    \E m \in Modals :
        /\ pc[m] = "fetching"
        /\ pass[m].i = 10
        /\ pass[m].pending = {"p11", "p12"}
        /\ Len(pass[m].playlistStates) = 10

InCall(state) == state \in {"adding", "removeReading", "removeWriting"}

\* the pipeline of m sends the first request of an add or remove call
CallStarts(m) == InCall(apc'[m]) /\ ~InCall(apc[m])

\* C27: the pipeline of applyChanges has one add or remove call in flight at
\* a time; the call of change k starts only when the calls of changes
\* 1..k-1 have all returned successfully, and the changes are the changed
\* rows in the order of the list.
C27_CallsSequentialInDiffOrder ==
    [][\A m \in Modals :
          CallStarts(m) =>
              LET A == app'[m]
                  Changed(p) == p.isInPlaylist # p.originalState
              IN  /\ apc[m] \in {"idle", "delay"}
                  /\ A.i \in 1..Len(A.changes)
                  /\ A.i = 1 => A.changes = IdsOf(SelectSeq(playlists[m], Changed))
                  /\ A.i > 1 => /\ apc[m] = "delay"
                                /\ A.changes = app[m].changes
                                /\ A.i = app[m].i + 1
                  /\ A.applied = SubSeq(A.changes, 1, A.i - 1)]_vars

C27_Witness ==
    \E m \in Modals :
        /\ InCall(apc[m])
        /\ app[m].i = 2
        /\ app[m].applied = <<app[m].changes[1]>>

delayThreshold == 5

\* C28: the pipeline waits between two calls only when it has more than 5
\* changes, and never after its last call.
C28_DelayOnlyAboveThreshold ==
    \A m \in Modals :
        apc[m] = "delay" => /\ Len(app[m].changes) > delayThreshold
                            /\ app[m].i < Len(app[m].changes)

\* the part of C28 the code keeps: no delay after the last call
C28_NoDelayAfterLastCall ==
    \A m \in Modals : apc[m] = "delay" => app[m].i < Len(app[m].changes)

InBatches(state) == state \in {"fetching", "batchDelay"}

\* C29: once the first track-list fetch of a pass is out, the pass classifies
\* nothing more from the cache table; it writes the cache table and clears
\* the Modified-Set only in the step in which the last fetch of its last
\* batch has completed; and when it clears the Modified-Set, the entries of
\* the playlists it fetched are already upserted.
C29_PassStepsOrdered ==
    [][\A m \in Modals :
          PassStep(m) =>
              /\ (InBatches(pc[m]) /\ InBatches(pc'[m])) =>
                    /\ pass'[m].hits = pass[m].hits
                    /\ pass'[m].cacheHits = pass[m].cacheHits
                    /\ pass'[m].playlistsToFetch = pass[m].playlistsToFetch
                    /\ pass'[m].modifiedPlaylistIds = pass[m].modifiedPlaylistIds
              /\ (lsCache' # lsCache \/ lsModified' # lsModified) =>
                    /\ pc'[m] = "idle"
                    /\ pc[m] = "fetching" =>
                          /\ Cardinality(pass[m].pending) = 1
                          /\ Range(pass[m].playlistsToFetch) \ pass[m].pending
                                \subseteq DOMAIN pass[m].results
              /\ (lsModified' # lsModified /\ pc[m] = "fetching"
                  /\ pass[m].settings.enabled /\ EnabledNow) =>
                    \A id \in Range(pass[m].playlistsToFetch) :
                        \E e \in EntriesOf(lsCache', id) : e.cachedAt = now]_vars

\* a pass has ended that answered one playlist from the cache, fetched and
\* upserted the playlist a pipeline had changed, and cleared the Modified-Set
C29_Witness ==
    \E m, m2 \in Modals :
        /\ mstate[m] = "open" /\ pc[m] = "idle" /\ ~loading[m] /\ cacheUsed[m]
        /\ lsModified = <<>>
        /\ app[m2].applied # <<>>
        /\ apc[m2] = "idle"
        /\ \A id \in Range(app[m2].applied) : EntriesOf(lsCache, id) # {}

\* C30: once the abort flag is set, the membership check of a playlist sends
\* no further track-page request: the page that was in flight returns and the
\* loop stops.
C30_NoPageRequestAfterAbort ==
    [][(/\ ret.op = "pages"
        /\ ret.path = "checkSongInPlaylistWithCache"
        /\ aborted["m1"]
        /\ ret' # ret) => ~(ret'.looping /\ ret'.hasMore)]_vars

\* the part of C30 the batch loop keeps: once the flag is set no batch starts
C30_NoBatchAfterAbort ==
    [][\A m \in Modals :
          (aborted[m] /\ PassStep(m)) => pass'[m].pending \subseteq pass[m].pending]_vars

(***************************************************************************)
(* Properties of failures inside a pass and of the statistics.             *)
(***************************************************************************)
\* the step in which the track request of a playlist of the pass of m fails
FetchFails(m) == pc[m] = "fetching" /\ pass'[m] # pass[m] /\ budget'.env < budget.env

\* the entry of playlist id in a list of playlist states
StateOf(states, id) == states[IndexOfId(states, id)]

C31_FailedPageKeepsCollected ==
    [][(ret.op = "pages" /\ ret' # ret /\ budget'.env < budget.env) =>
          /\ ret'.allTracks = ret.allTracks
          /\ ~ret'.looping]_vars

\* the stored entries getCachedPlaylist reports absent now
AbsentNow ==
    {k \in DOMAIN lsCache :
        getCachedPlaylist(lsCache, lsSettings, lsCache[k].id, now) = <<>>}

\* C32: with caching enabled, expiredPlaylists of getStats is the number of
\* stored entries for which getCachedPlaylist answers null at the same
\* instant, and modifiedPlaylists is the size of the Modified-Set.
C32_StatsUseTheAgeFormulaOfGet ==
    ret.op = "getStats" =>
        /\ EnabledNow => ret.val.expiredPlaylists = Cardinality(AbsentNow)
        /\ ret.val.modifiedPlaylists = Cardinality(Range(lsModified))

\* statistics taken while one entry is expired, another is not, and the
\* Modified-Set is not empty
C32_Witness ==
    /\ ret.op = "getStats"
    /\ EnabledNow
    /\ ret.val.expiredPlaylists = 1
    /\ ret.val.totalPlaylists = 2
    /\ ret.val.modifiedPlaylists = 2

\* ---------------------------------------------------------------------------
\* The modal with a MusicKit instance that may lack its tokens, from the start
\* or from some moment on.

TokensInit ==
    /\ lsCache = <<>>
    /\ lsSettings = <<>>
    /\ lsModified = <<>>
    /\ now = 0
    /\ ret = [op |-> "none"]
    /\ InstancesIdle
    /\ tokens \in BOOLEAN
    /\ remote = InitialRemote
    /\ budget = Budget0

\* the user signs out of or into the music service
TokensChange ==
    /\ CanSpend("env")
    /\ tokens' = ~tokens
    /\ budget' = Spend("env")
    /\ UNCHANGED <<lsVars, now, ret, remote, mstate, aborted, loading, processing,
                   cacheUsed, playlists, alerts, pc, pass, apc, app, passCount, hist>>

TokensNext ==
    \/ \E m \in Modals : OpenModal(m)
    \/ \E m \in Modals, listing \in Listings : ListingDone(m, listing)
    \/ \E m \in Modals, p \in Playlists, ok \in BOOLEAN : FetchDone(m, p, ok)
    \/ \E m \in Modals : CloseModal(m)
    \/ \E m \in Modals, k \in 1..Cardinality(Playlists) : TogglePlaylist(m, k)
    \/ \E m \in Modals : ApplyChanges(m)
    \/ \E m \in Modals, ok \in BOOLEAN : AddDone(m, ok)
    \/ \E m \in Modals, ok \in BOOLEAN : RemoveReadDone(m, ok)
    \/ \E m \in Modals, ok \in BOOLEAN : RemoveWriteDone(m, ok)
    \/ \E m \in Modals : ApplyDelayDone(m)
    \/ TokensChange

SpecTokens == TokensInit /\ [][TokensNext]_vars

InWrite(state) == state \in {"adding", "removeWriting"}

\* the pipeline of m comes to the call of an add while the tokens are missing
AddDueWithoutTokens(m) ==
    /\ ~tokens
    /\ \/ mstate[m] = "open" /\ apc[m] = "idle" /\ budget'.applies < budget.applies
       \/ apc[m] = "delay" /\ apc'[m] # apc[m]
    /\ ChangeObject(m, app'[m], app'[m].changes[app'[m].i]).isInPlaylist

\* the read of a remove call of m returns while the tokens are missing
RemoveReadReturnsWithoutTokens(m) ==
    /\ ~tokens
    /\ apc[m] = "removeReading"
    /\ apc'[m] # apc[m]

\* that read succeeded and holds a track matching the song
RemoveFinds(m) ==
    /\ budget' = budget
    /\ LET allTracks == remote[app[m].changes[app[m].i]]
       IN  \E k \in DOMAIN allTracks : RemoveIsMatch(allTracks[k], SongId)

\* the call fails into the catch block of applyChanges: alert, processing
\* reset, pipeline over, the change not applied, nothing written
FailsIntoAlert(m) ==
    /\ alerts'[m] = alerts[m] + 1
    /\ ~processing'[m]
    /\ apc'[m] = "idle"
    /\ app'[m].applied = SubSeq(app'[m].changes, 1, app'[m].i - 1)
    /\ remote' = remote

NoWriteSentWithoutTokens ==
    \A m \in Modals : (~tokens /\ InWrite(apc'[m])) => apc'[m] = apc[m]

\* C33: while the tokens are missing no add or replace request is sent; an
\* add call, and a remove call, fails into the alert of applyChanges and
\* the pipeline ends there.
C33_NoTokensCallFails ==
    [][/\ NoWriteSentWithoutTokens
       /\ \A m \in Modals :
             (AddDueWithoutTokens(m) \/ RemoveReadReturnsWithoutTokens(m)) =>
                 FailsIntoAlert(m)]_vars

\* C33, as the code has it: the remove call checks the tokens only when its
\* read found the song; when the read found nothing (or failed) the call
\* returns successfully without a write request and the pipeline goes on.
C33_NoTokensCallFailsWhenItHasToWrite ==
    [][/\ NoWriteSentWithoutTokens
       /\ \A m \in Modals :
             /\ AddDueWithoutTokens(m) => FailsIntoAlert(m)
             /\ RemoveReadReturnsWithoutTokens(m) =>
                   IF RemoveFinds(m) THEN FailsIntoAlert(m)
                   ELSE /\ app'[m].applied
                             = Append(app[m].applied, app[m].changes[app[m].i])
                        /\ alerts' = alerts
                        /\ remote' = remote]_vars

\* an add call failed for want of tokens: alert raised, nothing applied, no
\* request failure involved
C33_Witness ==
    \E m \in Modals :
        /\ ~tokens
        /\ budget.env = MaxEnvOps
        /\ alerts[m] = 1
        /\ apc[m] = "idle" /\ ~processing[m] /\ mstate[m] = "open"
        /\ app[m].i = 1 /\ app[m].applied = <<>>
        /\ ChangeObject(m, app[m], app[m].changes[1]).isInPlaylist

\* ---------------------------------------------------------------------------
\* The modal over libraries whose playlist p1 holds one track in one of the
\* identifier forms of the remote API; p2 holds the song, so the song is in
\* the library and findLibraryId finds its library id.

\* the song as a library track without playParams.catalogId
LibraryOnlyTrack == [id |-> SongLibraryId, catalogId |-> <<>>]

\* another song, whose catalog id contains the catalog id of the song
LongerIdTrack == [id |-> OtherLibraryId, catalogId |-> SongId \o <<"3">>]

VerdictTracks == {SongTrack, LibraryOnlyTrack, LongerIdTrack, OtherTrack}

VerdictRemotes ==
    {[p \in Playlists |-> IF p = "p1" THEN <<t>> ELSE <<SongTrack>>] : t \in VerdictTracks}

VerdictInit ==
    /\ lsCache = <<>>
    /\ lsSettings = <<>>
    /\ lsModified = <<>>
    /\ now = 0
    /\ ret = [op |-> "none"]
    /\ ModalIdle
    /\ remote \in VerdictRemotes
    /\ budget = Budget0

SpecVerdict == VerdictInit /\ [][Next]_vars

\* the verdict of the fetch path for the track ids and search ids given
FetchVerdict(trackIds, searchIds) ==
    \E a \in DOMAIN searchIds : \E b \in DOMAIN trackIds :
        IdsMatch(trackIds[b], searchIds[a])

\* C34: the verdict the classification serves from the cache entry of a
\* playlist is the verdict the fetch path computes for the same search ids
\* from the track ids stored in that entry.
C34_CacheVerdictIsFetchVerdict ==
    [][\A m \in Modals :
          Classifies(m) =>
              \A P \in ServedFromCacheNext(m) :
                  LET entry == getCachedPlaylist(lsCache, lsSettings, P, now)
                      searchIds == <<SongId>> \o findLibraryId
                  IN  entry # <<>> =>
                          StateOf(HitStatesNext(m), P).isInPlaylist
                              = FetchVerdict(entry[1].tracks, searchIds)]_vars

\* C35: after a successful replace call of removeSongFromPlaylist the
\* playlist still holds every track it held before that does not match the
\* song: all but the one occurrence of the song.
C35_RemoveKeepsOtherSongs ==
    ret.op = "replaced" => ret.remainingTracks = ret.total - 1

\* ---------------------------------------------------------------------------
\* The user goes on clicking rows while the pipeline runs, and presses Done
\* again after a pipeline that stopped on a failure.

InterleaveToggles == 3
InterleaveApplies == 2

InterleaveInit ==
    /\ lsCache = <<>>
    /\ lsSettings = <<>>
    /\ lsModified = <<>>
    /\ now = 0
    /\ ret = [op |-> "none"]
    /\ ModalIdle
    /\ remote = InitialRemote
    /\ budget = [Budget0 EXCEPT
                    !.toggles = InterleaveToggles,
                    !.applies = InterleaveApplies,
                    !.ops = MaxOps + (InterleaveToggles - MaxToggles)
                                   + (InterleaveApplies - MaxApplies)]

InterleaveNext ==
    \/ \E m \in Modals : OpenModal(m)
    \/ \E m \in Modals, listing \in Listings : ListingDone(m, listing)
    \/ \E m \in Modals, p \in Playlists, ok \in BOOLEAN : FetchDone(m, p, ok)
    \/ \E m \in Modals : CloseModal(m)
    \/ \E m \in Modals, k \in 1..Cardinality(Playlists) : TogglePlaylist(m, k)
    \/ \E m \in Modals : ApplyChanges(m)
    \/ \E m \in Modals, ok \in BOOLEAN : AddDone(m, ok)
    \/ \E m \in Modals, ok \in BOOLEAN : RemoveReadDone(m, ok)
    \/ \E m \in Modals, ok \in BOOLEAN : RemoveWriteDone(m, ok)
    \/ \E m \in Modals : ApplyDelayDone(m)

SpecInterleave == InterleaveInit /\ [][InterleaveNext]_vars

\* C36: the call the pipeline issues for a change is the one the diff asked
\* for when applyChanges started: add when the playlist did not hold the
\* song then (original state not a member, target state member), remove
\* otherwise, also when rows are clicked while the pipeline runs.
C36_CallsFollowTheDiffAtStart ==
    [][\A m \in Modals :
          CallStarts(m) =>
              LET A == app'[m]
                  obj == ChangeObject(m, A, A.changes[A.i])
              IN  (apc'[m] = "adding") = ~obj.originalState]_vars

\* the pipeline of m has stopped in its catch block, the modal is still open
StoppedOnFailure(m) ==
    /\ mstate[m] = "open"
    /\ apc[m] = "idle"
    /\ ~processing[m]
    /\ app[m].i > 0
    /\ Len(app[m].applied) < Len(app[m].changes)

\* the playlists whose call succeeded and whose row was not clicked since
Succeeded(m) == Range(app[m].applied) \ app[m].touched

\* Done is pressed again after the pipeline stopped
Retries(m) ==
    /\ StoppedOnFailure(m)
    /\ budget'.applies < budget.applies
    /\ app'[m] # app[m]

\* C37: once applyChanges has stopped on a failure, every playlist whose
\* call had succeeded has originalState equal to isInPlaylist, so hasChanges
\* and changesCount count none of them, and applyChanges started again
\* issues no call for any of them (a row the user clicked after its call had
\* succeeded is a new change and is left out).
C37_SucceededChangesAreSynced ==
    [][\A m \in Modals :
          /\ StoppedOnFailure(m) =>
                /\ ChangedIds(m) \cap Succeeded(m) = {}
                /\ changesCount(m) = Cardinality(ChangedIds(m) \ Succeeded(m))
                /\ hasChanges(m) = (ChangedIds(m) \ Succeeded(m) # {})
          /\ Retries(m) => Range(app'[m].changes) \cap Succeeded(m) = {}]_vars

C37_Witness ==
    \E m \in Modals :
        /\ StoppedOnFailure(m)
        /\ app[m].applied # <<>>
        /\ hasChanges(m)
        /\ budget.applies > 0

\* every listing a pass of the model can receive
AllListings == Listings \cup {BatchListing}

\* the two paths of a pass record are disjoint and hold no playlist twice
PathsDisjoint(P) ==
    /\ P.hits \cap Range(P.playlistsToFetch) = {}
    /\ Len(P.playlistsToFetch) = Cardinality(Range(P.playlistsToFetch))
    /\ P.cacheHits = Cardinality(P.hits)
    /\ DOMAIN P.results \subseteq Range(P.playlistsToFetch)

\* states holds exactly one entry for each id of ids
OneEntryEach(states, ids) ==
    /\ Range(IdsOf(states)) = ids
    /\ Len(states) = Cardinality(ids)

\* the classification of a listing by a pass that is not cancelled and does
\* not throw
ClassifiesListing(m, listing) ==
    /\ ListingDone(m, listing)
    /\ ~aborted[m]
    /\ alerts'[m] = alerts[m]

\* a pass that is not cancelled returns after its last batch
CompletesAfterFetch(m) ==
    /\ pc[m] = "fetching"
    /\ PassCompletes(m)
    /\ ~aborted[m]

\* C38: a completed pass that was not cancelled returns exactly one entry
\* for each editable playlist of the listing, each entry from the cache path
\* or from the fetch path and never from both, and cacheUsed is true exactly
\* when at least one entry came from the cache.
C38_OneVerdictPerListedPlaylist ==
    [][\A m \in Modals :
          /\ \A listing \in AllListings :
                ClassifiesListing(m, listing) =>
                    /\ ListedNext(m) = Range(listing)
                    /\ OneEntryEach(HitStatesNext(m), ServedFromCacheNext(m))
                    /\ cacheUsed'[m] = (ServedFromCacheNext(m) # {})
                    /\ pc'[m] = "fetching" => PathsDisjoint(pass'[m])
                    /\ pc'[m] = "idle" => OneEntryEach(playlists'[m], Range(listing))
          /\ (InBatches(pc[m]) /\ InBatches(pc'[m])) =>
                /\ pass'[m].hits = pass[m].hits
                /\ pass'[m].playlistsToFetch = pass[m].playlistsToFetch
                /\ cacheUsed'[m] = cacheUsed[m]
                /\ PathsDisjoint(pass'[m])
          /\ CompletesAfterFetch(m) =>
                /\ OneEntryEach(playlists'[m],
                                pass[m].hits \cup Range(pass[m].playlistsToFetch))
                /\ cacheUsed'[m] = (pass[m].hits # {})
                /\ \A k \in DOMAIN playlists'[m] :
                      LET id == playlists'[m][k].id
                      IN  IF id \in pass[m].hits
                          THEN playlists'[m][k] =
                                   StateOf(pass[m].playlistStates, id)
                          ELSE id \in DOMAIN pass[m].results =>
                                   playlists'[m][k] = pass[m].results[id]]_vars

C38_Witness ==
    \E m \in Modals :
        /\ mstate[m] = "open"
        /\ pc[m] = "idle"
        /\ ~loading[m]
        /\ ~aborted[m]
        /\ alerts[m] = 0
        /\ cacheUsed[m]
        /\ Len(playlists[m]) = Cardinality(Playlists)
        /\ \E k \in DOMAIN lsCache : lsCache[k].cachedAt < now
        /\ \E k \in DOMAIN lsCache : lsCache[k].cachedAt = now


====
